---- MODULE Spec2Model ----
(***************************************************************************)
(* A model of vrischmann/tasks: the TaskManager (task_manager.go), the     *)
(* markdown reader and the forward-scan deleteItem of the command line     *)
(* tool, the task line parser (task_parser.go), the interactive Model of   *)
(* main.go and the load / mutate / save invocations of the command line.   *)
(*                                                                         *)
(* Go strings are sequences of one-character strings.  Go slices are       *)
(* sequences; a Go index i is position i + 1 of the sequence.  A *bool is  *)
(* an address into a heap of booleans, NilPtr being nil.  The fields       *)
(* Children and LineNumber of Item are written but never read by any       *)
(* operation modelled here and are left out.                               *)
(***************************************************************************)
EXTENDS Integers, Sequences, FiniteSets, TLC

VARIABLES tm, last, file, rt, ui, inv

vars == <<tm, last, file, rt, ui, inv>>

(***************************************************************************)
(* Bounds of the model.                                                    *)
(***************************************************************************)
MaxItems == 3

(***************************************************************************)
(* Item and ItemType.                                                      *)
(***************************************************************************)
TypeSection == 0

TypeTask == 1

NilPtr == 0

NoMetadata == << >>

Min(a, b) == IF a < b THEN a ELSE b

Max(a, b) == IF a > b THEN a ELSE b

Range(s) == {s[i] : i \in 1..Len(s)}

Item(type, level, content, checked, metadata) ==
    [Type |-> type, Level |-> level, Content |-> content,
     Checked |-> checked, Metadata |-> metadata]

\* The addresses the items of a list hold.
Ptrs(items) == {items[i].Checked : i \in 1..Len(items)} \ {NilPtr}

\* One flag shared by every task created: the address of an item already there.
NewPtrShared(items) ==
    IF Ptrs(items) = {} THEN 1 ELSE CHOOSE p \in Ptrs(items) : TRUE

\* func() *bool { b := false; return &b }(): an address no live item holds.
NewPtr(items) == CHOOSE p \in 1..(Len(items) + 1) : p \notin Ptrs(items)

\* The completion state an item shows: "nil" for a nil pointer.
Shown(b) == IF b THEN "true" ELSE "false"

Deref(heap, p) == IF p = NilPtr THEN "nil" ELSE Shown(heap[p])

\* What a reader of the list observes: every field, pointers followed.
ItemView(heap, it) ==
    [Type |-> it.Type, Level |-> it.Level, Content |-> it.Content,
     Checked |-> Deref(heap, it.Checked), Metadata |-> it.Metadata]

View(t) == [i \in 1..Len(t.Items) |-> ItemView(t.heap, t.Items[i])]

\* Addresses are only ever compared for equality, so a state names them in
\* the order the list first uses them; which items share a flag is kept.
RECURSIVE Renaming(_, _, _)
Renaming(items, i, map) ==
    IF i > Len(items)
    THEN map
    ELSE LET p == items[i].Checked
         IN  IF p = NilPtr \/ p \in DOMAIN map
             THEN Renaming(items, i + 1, map)
             ELSE Renaming(items, i + 1,
                           map @@ (p :> Cardinality(DOMAIN map) + 1))

Canon(t) ==
    LET map == Renaming(t.Items, 1, << >>)
    IN  [Items |-> [i \in 1..Len(t.Items) |->
                       [t.Items[i] EXCEPT !.Checked =
                           IF @ = NilPtr THEN NilPtr ELSE map[@]]],
         heap |-> [r \in 1..Cardinality(DOMAIN map) |->
                       t.heap[CHOOSE q \in DOMAIN map : map[q] = r]]]

(***************************************************************************)
(* slices.Delete and slices.Insert.                                        *)
(***************************************************************************)
SlicesDelete(s, i, j) == SubSeq(s, 1, i) \o SubSeq(s, j + 1, Len(s))

SlicesInsert(s, i, v) == SubSeq(s, 1, i) \o <<v>> \o SubSeq(s, i + 1, Len(s))

(***************************************************************************)
(* deleteItem: the forward scan for the end of a section's range.          *)
(***************************************************************************)
RECURSIVE ScanDeleteEnd(_, _, _)
ScanDeleteEnd(items, level, deleteEnd) ==
    IF deleteEnd < Len(items)
    THEN LET nextItem == items[deleteEnd + 1]
         IN  IF nextItem.Type = TypeSection /\ nextItem.Level <= level
             THEN deleteEnd
             ELSE ScanDeleteEnd(items, level, deleteEnd + 1)
    ELSE deleteEnd

\* A scan that stops at any later section, whatever its level.
ScanDeleteEndAnySection(items, level, deleteEnd) ==
    IF \E j \in (deleteEnd + 1)..Len(items) : items[j].Type = TypeSection
    THEN (CHOOSE j \in (deleteEnd + 1)..Len(items) :
              /\ items[j].Type = TypeSection
              /\ \A k \in (deleteEnd + 1)..(j - 1) : items[k].Type # TypeSection) - 1
    ELSE Len(items)

DeleteEnd(items, level, deleteEnd) == ScanDeleteEnd(items, level, deleteEnd)

\* A removal of the one item at index, whatever its type.
deleteItemAlone(items, index) ==
    IF index < 0 \/ index >= Len(items) THEN items
    ELSE SlicesDelete(items, index, index + 1)

deleteItem(items, index) ==
    IF index < 0 \/ index >= Len(items)
    THEN items
    ELSE LET currentItem == items[index + 1]
         IN  IF currentItem.Type = TypeSection
             THEN SlicesDelete(items, index,
                               DeleteEnd(items, currentItem.Level, index + 1))
             ELSE SlicesDelete(items, index, index + 1)

(***************************************************************************)
(* TaskManager: a value t is [Items, heap]; an operation returns the new   *)
(* value and the error it reports (NoErr for nil).                         *)
(***************************************************************************)
NoErr == "nil"

ErrInvalidItemIndex == "invalid item index"

ErrNotATask == "not a task"

ErrInvalidAfterIndex == "invalid after index"

ErrInvalidSectionLevel == "invalid section level"

PanicNilDeref == "panic: nil pointer dereference"

Result(t, err) == [tm |-> t, err |-> err]

\* A bounds check that takes index 0 for invalid.
GetItemFromOne(t, index) ==
    IF index <= 0 \/ index >= Len(t.Items)
    THEN [item |-> NilPtr, err |-> ErrInvalidItemIndex]
    ELSE [item |-> index + 1, err |-> NoErr]

GetItem(t, index) ==
    IF index < 0 \/ index >= Len(t.Items)
    THEN [item |-> NilPtr, err |-> ErrInvalidItemIndex]
    ELSE [item |-> index + 1, err |-> NoErr]

\* A store that flips the flag instead of setting it.
StoreCheckedFlip(t, pos, completed) ==
    [t EXCEPT !.heap[t.Items[pos].Checked] = ~t.heap[t.Items[pos].Checked]]

\* *item.Checked = completed
StoreChecked(t, pos, completed) ==
    [t EXCEPT !.heap[t.Items[pos].Checked] = completed]

ToggleTask(t, index, completed) ==
    LET got == GetItem(t, index)
    IN  IF got.err # NoErr
        THEN Result(t, got.err)
        ELSE IF t.Items[got.item].Type # TypeTask
        THEN Result(t, ErrNotATask)
        ELSE IF t.Items[got.item].Checked = NilPtr
        THEN Result(t, PanicNilDeref)
        ELSE Result(StoreChecked(t, got.item, completed), NoErr)

RemoveItem(t, index) ==
    IF index < 0 \/ index >= Len(t.Items)
    THEN Result(t, ErrInvalidItemIndex)
    ELSE LET items == deleteItem(t.Items, index)
         IN  Result([Items |-> items,
                     heap |-> [p \in Ptrs(items) |-> t.heap[p]]], NoErr)

\* An insertion that appends before it validates afterIndex.
PlaceThenCheck(t, newItem, heap, afterIndex) ==
    IF afterIndex = -1
    THEN Result([Items |-> Append(t.Items, newItem), heap |-> heap], NoErr)
    ELSE IF afterIndex < 0 \/ afterIndex >= Len(t.Items)
    THEN Result([Items |-> Append(t.Items, newItem), heap |-> heap],
                ErrInvalidAfterIndex)
    ELSE Result([Items |-> SlicesInsert(t.Items, afterIndex + 1, newItem),
                 heap |-> heap], NoErr)

\* An insertion before the item at afterIndex instead of after it.
PlaceBefore(t, newItem, heap, afterIndex) ==
    IF afterIndex = -1
    THEN Result([Items |-> Append(t.Items, newItem), heap |-> heap], NoErr)
    ELSE IF afterIndex < 0 \/ afterIndex >= Len(t.Items)
    THEN Result(t, ErrInvalidAfterIndex)
    ELSE Result([Items |-> SlicesInsert(t.Items, afterIndex, newItem),
                 heap |-> heap], NoErr)

\* The tail of AddTask and AddSection: append, or insert at afterIndex + 1.
Place(t, newItem, heap, afterIndex) ==
    IF afterIndex = -1
    THEN Result([Items |-> Append(t.Items, newItem), heap |-> heap], NoErr)
    ELSE IF afterIndex < 0 \/ afterIndex >= Len(t.Items)
    THEN Result(t, ErrInvalidAfterIndex)
    ELSE Result([Items |-> SlicesInsert(t.Items, afterIndex + 1, newItem),
                 heap |-> heap], NoErr)

AddTask(t, description, metadata, afterIndex) ==
    LET b == NewPtr(t.Items)
        newTask == Item(TypeTask, 0, description, b, metadata)
    IN  Place(t, newTask, [p \in DOMAIN t.heap \cup {b} |->
                              IF p = b THEN FALSE ELSE t.heap[p]], afterIndex)

\* An AddSection that validates afterIndex before the level.
AddSectionIndexFirst(t, content, level, afterIndex) ==
    IF afterIndex # -1 /\ (afterIndex < 0 \/ afterIndex >= Len(t.Items))
    THEN Result(t, ErrInvalidAfterIndex)
    ELSE IF level < 1 \/ level > 6
    THEN Result(t, ErrInvalidSectionLevel)
    ELSE Place(t, Item(TypeSection, level, content, NilPtr, NoMetadata),
               t.heap, afterIndex)

\* An AddSection that takes any level.
AddSectionAnyLevel(t, content, level, afterIndex) ==
    Place(t, Item(TypeSection, level, content, NilPtr, NoMetadata), t.heap, afterIndex)

AddSection(t, content, level, afterIndex) ==
    IF level < 1 \/ level > 6
    THEN Result(t, ErrInvalidSectionLevel)
    ELSE Place(t, Item(TypeSection, level, content, NilPtr, NoMetadata),
               t.heap, afterIndex)

(***************************************************************************)
(* Characters.  Ascii lists the characters of the model in byte order.     *)
(***************************************************************************)
Ascii ==
    <<"\t", "\n", "\f", "\r", " ", "\"", "#", "-", ".", "/", "1", "2", ":",
      "X", "[", "\\", "]", "_", "a", "b", "e", "h", "i", "j", "k", "n", "q",
      "s", "t", "v", "w", "x">>

Code(c) == CHOOSE i \in 1..Len(Ascii) : Ascii[i] = c

\* A test that takes digits for letters.
IsLetterOrDigit(c) == Code(c) >= Code("1") /\ c \notin {":", "[", "\\", "]", "_"}

\* unicode.IsLetter and unicode.IsDigit on the characters of Ascii.
IsLetter(c) ==
    c \in {"X", "a", "b", "e", "h", "i", "j", "k", "n", "q", "s", "t", "v", "w", "x"}

IsDigit(c) == c \in {"1", "2"}

\* \s of the regular expressions.
IsRegexSpace(c) == c \in {"\t", "\n", "\f", "\r", " "}

\* unicode.IsSpace, for strings.TrimSpace (no "\v" in Ascii).
IsSpace(c) == c \in {"\t", "\n", "\f", "\r", " "}

\* strings.TrimLeft and strings.TrimRight with a set of characters.
RECURSIVE TrimLeft(_, _)
TrimLeft(str, cutset) ==
    IF str # << >> /\ Head(str) \in cutset THEN TrimLeft(Tail(str), cutset) ELSE str

RECURSIVE TrimRight(_, _)
TrimRight(str, cutset) ==
    IF str # << >> /\ str[Len(str)] \in cutset
    THEN TrimRight(SubSeq(str, 1, Len(str) - 1), cutset)
    ELSE str

\* strings.TrimSpace
TrimSpace(str) ==
    TrimLeft(TrimRight(str, {c \in Range(Ascii) : IsSpace(c)}),
             {c \in Range(Ascii) : IsSpace(c)})

\* strings.Contains(s, c) for a one-character c
ContainsChar(str, c) == \E i \in 1..Len(str) : str[i] = c

\* strings.Repeat
RECURSIVE Repeat(_, _)
Repeat(c, n) == IF n <= 0 THEN << >> ELSE <<c>> \o Repeat(c, n - 1)

\* strings.Join
RECURSIVE Join(_, _)
Join(strs, sep) ==
    IF strs = << >> THEN << >>
    ELSE IF Len(strs) = 1 THEN strs[1]
    ELSE strs[1] \o sep \o Join(Tail(strs), sep)

\* The order of Go strings: byte by byte, a prefix first.
RECURSIVE StrLess(_, _)
StrLess(a, b) ==
    IF b = << >> THEN FALSE
    ELSE IF a = << >> THEN TRUE
    ELSE IF Head(a) = Head(b) THEN StrLess(Tail(a), Tail(b))
    ELSE Code(Head(a)) < Code(Head(b))

\* The keys in descending order.
RECURSIVE KeysDescending(_)
KeysDescending(keys) ==
    IF keys = {} THEN << >>
    ELSE LET k == CHOOSE x \in keys : \A y \in keys \ {x} : StrLess(y, x)
         IN  <<k>> \o KeysDescending(keys \ {k})

\* slices.Sorted(maps.Keys(m))
RECURSIVE SortedKeys(_)
SortedKeys(keys) ==
    IF keys = {} THEN << >>
    ELSE LET k == CHOOSE x \in keys : \A y \in keys \ {x} : StrLess(x, y)
         IN  <<k>> \o SortedKeys(keys \ {k})

(***************************************************************************)
(* saveToFile: the text written for a list.                                *)
(***************************************************************************)
\* A writer that leaves the quotes inside a value as they are.
EscapeQuotesNot(value) == value

\* strings.ReplaceAll(value, `"`, `\"`)
RECURSIVE EscapeQuotes(_)
EscapeQuotes(value) ==
    IF value = << >> THEN << >>
    ELSE (IF Head(value) = "\"" THEN <<"\\", "\"">> ELSE <<Head(value)>>)
             \o EscapeQuotes(Tail(value))

\* A writer that quotes a value without escaping the quotes inside it.
QuoteValueNoEscape(value) ==
    IF ContainsChar(value, " ") THEN <<"\"">> \o value \o <<"\"">> ELSE value

\* Values that contain a space are written quoted.
QuoteValue(value) ==
    IF ContainsChar(value, " ")
    THEN <<"\"">> \o EscapeQuotes(value) \o <<"\"">>
    ELSE value

RECURSIVE MetadataText(_, _)
MetadataText(metadata, keys) ==
    IF keys = << >> THEN << >>
    ELSE <<" ">> \o Head(keys) \o <<":">> \o QuoteValue(metadata[Head(keys)])
             \o MetadataText(metadata, Tail(keys))

SectionText(items, i) ==
    (IF i > 1 THEN <<"\n">> ELSE << >>)
        \o Repeat("#", items[i].Level) \o <<" ">> \o items[i].Content \o <<"\n">>
        \o (IF i < Len(items) /\ items[i + 1].Type # TypeSection
            THEN <<"\n">> ELSE << >>)

TaskText(heap, item) ==
    LET checkBox == IF item.Checked # NilPtr /\ heap[item.Checked]
                    THEN <<"[", "x", "]">> ELSE <<"[", " ", "]">>
        content == item.Content
                       \o MetadataText(item.Metadata,
                                       SortedKeys(DOMAIN item.Metadata))
    IN  <<"-", " ">> \o checkBox \o <<" ">> \o content \o <<"\n">>

RECURSIVE WriteItems(_, _)
WriteItems(t, i) ==
    IF i > Len(t.Items) THEN << >>
    ELSE (IF t.Items[i].Type = TypeSection
          THEN SectionText(t.Items, i)
          ELSE TaskText(t.heap, t.Items[i])) \o WriteItems(t, i + 1)

\* The buffer saveToFile builds and writes.
saveToFile(t) == WriteItems(t, 1)

(***************************************************************************)
(* TaskParser.  A position is the Go index p.pos; the character there is   *)
(* input[pos + 1].                                                         *)
(***************************************************************************)
At(input, pos) == input[pos + 1]

Slice(input, from, to) == SubSeq(input, from + 1, to)

RECURSIVE skipWhitespace(_, _)
skipWhitespace(input, pos) ==
    IF pos < Len(input) /\ (At(input, pos) = " " \/ At(input, pos) = "\t")
    THEN skipWhitespace(input, pos + 1)
    ELSE pos

expect(input, pos, expected) == pos < Len(input) /\ At(input, pos) = expected

IsIdentifierChar(ch) ==
    IsLetter(ch) \/ IsDigit(ch) \/ ch = "_" \/ ch = "-" \/ ch = "."

\* The position after the identifier that starts at pos.
RECURSIVE parseIdentifier(_, _)
parseIdentifier(input, pos) ==
    IF pos < Len(input) /\ IsIdentifierChar(At(input, pos))
    THEN parseIdentifier(input, pos + 1)
    ELSE pos

\* An escape that keeps every character as it is.
UnescapeNone(next) == next

Unescape(next) ==
    CASE next = "n" -> "\n"
      [] next = "t" -> "\t"
      [] OTHER -> next

\* From the character after the opening quote; result is the builder.
RECURSIVE scanQuoted(_, _, _)
scanQuoted(input, pos, result) ==
    IF pos >= Len(input)
    THEN [value |-> << >>, pos |-> pos]
    ELSE LET ch == At(input, pos)
         IN  IF ch = "\""
             THEN [value |-> result, pos |-> pos + 1]
             ELSE IF ch = "\\" /\ pos + 1 < Len(input)
             THEN scanQuoted(input, pos + 2,
                             Append(result, Unescape(At(input, pos + 1))))
             ELSE scanQuoted(input, pos + 1, Append(result, ch))

parseQuotedString(input, pos) == scanQuoted(input, pos + 1, << >>)

NotMetadata(start) == [ok |-> FALSE, key |-> << >>, value |-> << >>, pos |-> start]

\* A parser that accepts no pair.
parseMetadataNever(input, start) == NotMetadata(start)

parseMetadata(input, start) ==
    LET keyEnd == parseIdentifier(input, start)
        key == Slice(input, start, keyEnd)
    IN  IF key = << >> \/ ~IsLetter(key[1])
        THEN NotMetadata(start)
        ELSE IF ~expect(input, keyEnd, ":")
        THEN NotMetadata(start)
        ELSE IF keyEnd + 1 < Len(input) /\ At(input, keyEnd + 1) = "\""
        THEN LET q == parseQuotedString(input, keyEnd + 1)
             IN  IF q.value = << >>
                 THEN NotMetadata(start)
                 ELSE [ok |-> TRUE, key |-> key, value |-> q.value, pos |-> q.pos]
        ELSE LET valueEnd == parseIdentifier(input, keyEnd + 1)
                 value == Slice(input, keyEnd + 1, valueEnd)
             IN  IF value = << >>
                 THEN NotMetadata(start)
                 ELSE [ok |-> TRUE, key |-> key, value |-> value, pos |-> valueEnd]

\* A word read that advances past nothing.
parseWordNowhere(input, pos) == pos

\* The position after the word that starts at pos.
RECURSIVE parseWord(_, _)
parseWord(input, pos) ==
    IF pos < Len(input) /\ At(input, pos) # " " /\ At(input, pos) # "\t"
    THEN parseWord(input, pos + 1)
    ELSE pos

\* A map that keeps the first value of a key.
SetKeyFirst(metadata, key, value) ==
    [k \in DOMAIN metadata \cup {key} |->
        IF k \in DOMAIN metadata THEN metadata[k] ELSE value]

\* result.Metadata[key] = value
SetKey(metadata, key, value) ==
    [k \in DOMAIN metadata \cup {key} |-> IF k = key THEN value ELSE metadata[k]]

\* The loop of parseContent, from position pos.
RECURSIVE contentLoop(_, _, _, _)
contentLoop(input, pos, tokens, metadata) ==
    IF pos >= Len(input)
    THEN [tokens |-> tokens, metadata |-> metadata, pos |-> pos]
    ELSE LET at == skipWhitespace(input, pos)
             m == parseMetadata(input, at)
         IN  IF m.ok
             THEN contentLoop(input, m.pos, tokens, SetKey(metadata, m.key, m.value))
             ELSE LET wordEnd == parseWord(input, at)
                  IN  contentLoop(input, wordEnd,
                                  Append(tokens, Slice(input, at, wordEnd)), metadata)

parseContent(input, pos, completed) ==
    LET c == contentLoop(input, pos, << >>, NoMetadata)
    IN  [Description |-> TrimSpace(Join(c.tokens, <<" ">>)),
         Completed |-> completed, Metadata |-> c.metadata, pos |-> c.pos, ok |-> TRUE]

\* parseTask's result when the prefix is not a task prefix.
NotATask == [Description |-> << >>, Completed |-> FALSE, Metadata |-> NoMetadata,
             pos |-> 0, ok |-> FALSE]

\* parseTaskPrefix: ok and the position after the prefix.
parseTaskPrefix(input) ==
    LET p1 == skipWhitespace(input, 0)
    IN  IF ~expect(input, p1, "-") THEN [ok |-> FALSE, completed |-> FALSE, pos |-> p1]
        ELSE LET p2 == skipWhitespace(input, p1 + 1)
             IN  IF ~expect(input, p2, "[") \/ p2 + 1 >= Len(input)
                 THEN [ok |-> FALSE, completed |-> FALSE, pos |-> p2]
                 ELSE LET ch == At(input, p2 + 1)
                      IN  IF ch \notin {"x", "X", " "} \/ ~expect(input, p2 + 2, "]")
                          THEN [ok |-> FALSE, completed |-> ch \in {"x", "X"},
                                pos |-> p2 + 1]
                          ELSE [ok |-> TRUE, completed |-> ch # " ",
                                pos |-> skipWhitespace(input, p2 + 3)]

parseTask(taskLine) ==
    LET input == TrimSpace(taskLine)
        prefix == parseTaskPrefix(input)
    IN  IF ~prefix.ok THEN [NotATask EXCEPT !.Completed = prefix.completed]
        ELSE parseContent(input, prefix.pos, prefix.completed)

(***************************************************************************)
(* parseMarkdownFile: bufio.Scanner lines, the two regular expressions,    *)
(* and the items built from the matching lines.                            *)
(***************************************************************************)
\* Number of leading characters of str that satisfy membership in set.
RECURSIVE LeadIn(_, _)
LeadIn(str, set) ==
    IF str # << >> /\ Head(str) \in set THEN 1 + LeadIn(Tail(str), set) ELSE 0

Drop(str, n) == SubSeq(str, n + 1, Len(str))

RegexSpaces == {c \in Range(Ascii) : IsRegexSpace(c)}

NoMatch == [ok |-> FALSE, m1 |-> << >>, m2 |-> << >>, m3 |-> << >>]

\* `\s+(.+)$` at the start of str: the greedy spaces give one back when
\* nothing else is left for the group.
SpacesThenRest(str) ==
    LET n == LeadIn(str, RegexSpaces)
    IN  IF n = 0 \/ ContainsChar(str, "\n") THEN [ok |-> FALSE, rest |-> << >>]
        ELSE IF n < Len(str) THEN [ok |-> TRUE, rest |-> Drop(str, n)]
        ELSE IF n >= 2 THEN [ok |-> TRUE, rest |-> Drop(str, n - 1)]
        ELSE [ok |-> FALSE, rest |-> << >>]

\* sectionRegex: ^(#{1,6})\s+(.+)$
sectionRegex(line) ==
    LET hashes == LeadIn(line, {"#"})
        tail == SpacesThenRest(Drop(line, hashes))
    IN  IF hashes \in 1..6 /\ tail.ok
        THEN [ok |-> TRUE, m1 |-> SubSeq(line, 1, hashes), m2 |-> tail.rest,
              m3 |-> << >>]
        ELSE NoMatch

\* taskRegex: ^(\s*)-\s+\[([x\s])\]\s+(.+)$
taskRegex(line) ==
    LET indent == LeadIn(line, RegexSpaces)
        afterDash == Drop(line, indent + 1)
        gap == LeadIn(afterDash, RegexSpaces)
        box == Drop(afterDash, gap)
        tail == SpacesThenRest(Drop(box, 3))
    IN  IF /\ indent < Len(line) /\ line[indent + 1] = "-"
           /\ gap >= 1
           /\ Len(box) >= 3 /\ box[1] = "["
           /\ (box[2] = "x" \/ IsRegexSpace(box[2]))
           /\ box[3] = "]"
           /\ tail.ok
        THEN [ok |-> TRUE, m1 |-> SubSeq(line, 1, indent), m2 |-> <<box[2]>>,
              m3 |-> tail.rest]
        ELSE NoMatch

\* bufio.ScanLines: lines end at "\n", one trailing "\r" is dropped, and a
\* last line without "\n" is returned when it is not empty.
dropCR(data) ==
    IF data # << >> /\ data[Len(data)] = "\r"
    THEN SubSeq(data, 1, Len(data) - 1) ELSE data

RECURSIVE ScanLines(_, _)
ScanLines(text, line) ==
    IF text = << >>
    THEN IF line = << >> THEN << >> ELSE <<dropCR(line)>>
    ELSE IF Head(text) = "\n"
    THEN <<dropCR(line)>> \o ScanLines(Tail(text), << >>)
    ELSE ScanLines(Tail(text), Append(line, Head(text)))

\* The item, if any, that one scanned line appends.
ParseLine(scanned) ==
    LET line == TrimRight(scanned, {" ", "\t"})
        section == sectionRegex(line)
        task == taskRegex(line)
        parsedTask == parseTask(line)
    IN  IF line = << >> THEN << >>
        ELSE IF section.ok
        THEN <<[Type |-> TypeSection, Level |-> Len(section.m1),
                Content |-> section.m2, Checked |-> "nil",
                Metadata |-> NoMetadata]>>
        ELSE IF ~task.ok THEN << >>
        ELSE IF parsedTask.Description = << >> /\ DOMAIN parsedTask.Metadata = {}
        THEN <<[Type |-> TypeTask, Level |-> Len(task.m1),
                Content |-> task.m3, Checked |-> Shown(task.m2 = <<"x">>),
                Metadata |-> NoMetadata]>>
        ELSE <<[Type |-> TypeTask, Level |-> Len(task.m1),
                Content |-> parsedTask.Description,
                Checked |-> Shown(parsedTask.Completed),
                Metadata |-> parsedTask.Metadata]>>

RECURSIVE ParseLines(_)
ParseLines(lines) ==
    IF lines = << >> THEN << >>
    ELSE ParseLine(Head(lines)) \o ParseLines(Tail(lines))

parseMarkdownFile(text) == ParseLines(ScanLines(text, << >>))

(***************************************************************************)
(* The list a Load leaves: the parser gives every task a flag of its own   *)
(* (the address is the task's position) and every section none.            *)
(***************************************************************************)
Loaded(views) ==
    [Items |-> [i \in 1..Len(views) |->
                   Item(views[i].Type, views[i].Level, views[i].Content,
                        IF views[i].Type = TypeTask THEN i ELSE NilPtr,
                        views[i].Metadata)],
     heap |-> [p \in {i \in 1..Len(views) : views[i].Type = TypeTask} |->
                   views[p].Checked = "true"]]

SeqsUpTo(S, n) == UNION {[1..k -> S] : k \in 0..n}

\* Items a file can hold, as the parser reports them.
FileSections == {[Type |-> TypeSection, Level |-> l, Content |-> <<"s">>,
                  Checked |-> "nil", Metadata |-> NoMetadata] : l \in {1, 2}}

FileTasks == {[Type |-> TypeTask, Level |-> 0, Content |-> <<"t">>,
               Checked |-> Shown(c), Metadata |-> NoMetadata] : c \in BOOLEAN}

\* Arguments of the calls.
ArgIndexes(t) == -1..Len(t.Items)

ArgAfterIndexes(t) == -2..Len(t.Items)

ArgLevels == {0, 1, 6, 7}

ArgDescriptions == {<<"t">>}

ArgTitles == {<<"s">>}

ArgMetadata == {[k \in {<<"k">>} |-> <<"v">>]}

\* No operation, or an unused variable of a specification.
Idle == [op |-> "none"]

NoPair == [first |-> << >>, err |-> "none"]

Call(op, index, completed, content, level, metadata, pre, err, pair) ==
    [op |-> op, index |-> index, completed |-> completed, content |-> content,
     level |-> level, metadata |-> metadata, pre |-> pre, err |-> err,
     pair |-> pair]

Init ==
    /\ tm \in {Canon(Loaded(v)) : v \in SeqsUpTo(FileSections \cup FileTasks, MaxItems)}
    /\ last = Call("Load", 0, FALSE, << >>, 0, NoMetadata, tm, NoErr, NoPair)
    /\ file = << >>
    /\ rt = Idle
    /\ ui = Idle
    /\ inv = Idle

\* ToggleTask(index, true) directly before ToggleTask(index, false): the list
\* before the first of the two calls and the first call's error.
PairOf(index, completed) ==
    IF /\ ~completed
       /\ last.op = "ToggleTask" /\ last.completed /\ last.index = index
    THEN [first |-> View(last.pre), err |-> last.err]
    ELSE NoPair

DoToggleTask ==
    \E index \in ArgIndexes(tm), completed \in BOOLEAN :
        LET r == ToggleTask(tm, index, completed)
        IN  /\ tm' = Canon(r.tm)
            /\ last' = Call("ToggleTask", index, completed, << >>, 0, NoMetadata,
                            tm, r.err, PairOf(index, completed))
            /\ UNCHANGED <<file, rt, ui, inv>>

DoRemoveItem ==
    \E index \in ArgIndexes(tm) :
        LET r == RemoveItem(tm, index)
        IN  /\ tm' = Canon(r.tm)
            /\ last' = Call("RemoveItem", index, FALSE, << >>, 0, NoMetadata,
                            tm, r.err, NoPair)
            /\ UNCHANGED <<file, rt, ui, inv>>

DoAddTask ==
    \E description \in ArgDescriptions, metadata \in ArgMetadata,
       afterIndex \in ArgAfterIndexes(tm) :
        LET r == AddTask(tm, description, metadata, afterIndex)
        IN  /\ Len(r.tm.Items) <= MaxItems
            /\ tm' = Canon(r.tm)
            /\ last' = Call("AddTask", afterIndex, FALSE, description, 0, metadata,
                            tm, r.err, NoPair)
            /\ UNCHANGED <<file, rt, ui, inv>>

DoAddSection ==
    \E content \in ArgTitles, level \in ArgLevels,
       afterIndex \in ArgAfterIndexes(tm) :
        LET r == AddSection(tm, content, level, afterIndex)
        IN  /\ Len(r.tm.Items) <= MaxItems
            /\ tm' = Canon(r.tm)
            /\ last' = Call("AddSection", afterIndex, FALSE, content, level,
                            NoMetadata, tm, r.err, NoPair)
            /\ UNCHANGED <<file, rt, ui, inv>>

Next == DoToggleTask \/ DoRemoveItem \/ DoAddTask \/ DoAddSection

Spec == Init /\ [][Next]_vars

(***************************************************************************)
(* The TaskManager claims.  PreView is the list before the last call.      *)
(***************************************************************************)
PreView == View(last.pre)

PreLen == Len(last.pre.Items)

ValidIndex(index, n) == 0 <= index /\ index < n

\* The position after the range a removal at position pos takes with it: the
\* first later section whose level is at most that of the section at pos.
RangeEnd(v, pos) ==
    IF v[pos].Type = TypeTask
    THEN pos + 1
    ELSE LET stops == {j \in (pos + 1)..Len(v) :
                          v[j].Type = TypeSection /\ v[j].Level <= v[pos].Level}
         IN  IF stops = {}
             THEN Len(v) + 1
             ELSE CHOOSE j \in stops : \A k \in stops : j <= k

Inserted(v, pos, x) == SubSeq(v, 1, pos - 1) \o <<x>> \o SubSeq(v, pos, Len(v))

\* Where the positional contract puts a new item: last for -1, else afterIndex + 1.
InsertPos(afterIndex, n) == IF afterIndex = -1 THEN n + 1 ELSE afterIndex + 2

PositionOk(afterIndex, n) == afterIndex = -1 \/ ValidIndex(afterIndex, n)

\* C1: RemoveItem(i) with a valid i removes item i alone when it is a Task and,
\* when it is a Section of level L, item i and every following item up to, but
\* excluding, the first later Section of level <= L (or the end of the list);
\* the surviving items keep their fields and their order.
C1_RemoveItemRange ==
    (last.op = "RemoveItem" /\ ValidIndex(last.index, PreLen)) =>
        /\ last.err = NoErr
        /\ View(tm) = SubSeq(PreView, 1, last.index)
                          \o SubSeq(PreView, RangeEnd(PreView, last.index + 1), PreLen)

\* A section with a child is removed and a later section of its level survives.
C1_Witness ==
    /\ last.op = "RemoveItem" /\ last.err = NoErr
    /\ PreLen = 3 /\ last.index = 0
    /\ PreView[1].Type = TypeSection
    /\ PreView[3].Type = TypeSection /\ PreView[3].Level <= PreView[1].Level
    /\ View(tm) = <<PreView[3]>>

\* C2: a call that returns an error leaves Items exactly as it was.
C2_ErrorLeavesItems ==
    (last.op # "Load" /\ last.err # NoErr) =>
        /\ tm = last.pre
        /\ View(tm) = PreView

\* AddSection fails on a non-empty list.
C2_Witness ==
    /\ last.op = "AddSection" /\ last.err = ErrInvalidAfterIndex
    /\ Len(tm.Items) > 0

\* C4: AddTask succeeds exactly when afterIndex is -1 or a valid index, fails
\* with 'invalid after index' otherwise, and on success the list is the old
\* list with one new incomplete task at the end (-1) or at afterIndex + 1.
C4_AddTask ==
    last.op = "AddTask" =>
        /\ last.err = (IF PositionOk(last.index, PreLen)
                       THEN NoErr ELSE ErrInvalidAfterIndex)
        /\ last.err = NoErr =>
               View(tm) = Inserted(PreView, InsertPos(last.index, PreLen),
                                   [Type |-> TypeTask, Level |-> 0,
                                    Content |-> last.content, Checked |-> "false",
                                    Metadata |-> last.metadata])

\* A task is inserted between two items, after a completed task.
C4_Witness ==
    /\ last.op = "AddTask" /\ last.err = NoErr
    /\ last.index = 0 /\ PreLen = 2
    /\ PreView[1].Checked = "true"
    /\ View(tm)[2].Content = last.content /\ View(tm)[2].Checked = "false"
    /\ View(tm)[3] = PreView[2]

\* C5: ToggleTask fails with 'invalid item index' exactly when the index is out
\* of range, with 'not a task' exactly when the index is valid and the item is
\* a Section, and succeeds otherwise.
C5_ToggleTaskErrors ==
    last.op = "ToggleTask" =>
        last.err = (IF ~ValidIndex(last.index, PreLen)
                    THEN ErrInvalidItemIndex
                    ELSE IF PreView[last.index + 1].Type = TypeSection
                    THEN ErrNotATask
                    ELSE NoErr)

C5_Witness ==
    /\ last.op = "ToggleTask" /\ last.err = ErrNotATask
    /\ last.index = PreLen - 1 /\ PreLen > 1

\* C6 as stated: ToggleTask(i, true) followed by ToggleTask(i, false) restores
\* the original completion state of the item at a valid index i.
C6_Original ==
    (last.op = "ToggleTask" /\ last.pair # NoPair
         /\ ValidIndex(last.index, PreLen)) =>
        View(tm)[last.index + 1].Checked = last.pair.first[last.index + 1].Checked

\* C6 amended: ToggleTask(i, true) followed by ToggleTask(i, false) leaves a
\* Task at a valid index i incomplete, whatever it was, and every other field
\* and item as before; a Section at i makes both calls fail and is untouched.
\* The original completion state is restored exactly when the item was not a
\* completed task.
C6_ToggleTrueThenFalse ==
    (last.op = "ToggleTask" /\ last.pair # NoPair
         /\ ValidIndex(last.index, PreLen)) =>
        LET pos == last.index + 1
            first == last.pair.first
        IN  /\ first[pos].Type = TypeTask =>
                /\ last.pair.err = NoErr /\ last.err = NoErr
                /\ View(tm) = [first EXCEPT ![pos].Checked = "false"]
            /\ first[pos].Type = TypeSection =>
                /\ last.pair.err = ErrNotATask /\ last.err = ErrNotATask
                /\ View(tm) = first
            /\ (View(tm)[pos].Checked = first[pos].Checked)
                   <=> (first[pos].Checked # "true")

\* The pair of calls has run on a task that was completed before them.
C6_Witness ==
    /\ last.op = "ToggleTask" /\ last.pair # NoPair
    /\ ValidIndex(last.index, PreLen)
    /\ last.pair.first[last.index + 1].Checked = "true"
    /\ View(tm)[last.index + 1].Checked = "false"

\* C7: a successful ToggleTask(i, c) makes the completion state of item i equal
\* to c and changes nothing else; a second call with the same c changes nothing.
C7_ToggleTaskFrame ==
    (last.op = "ToggleTask" /\ last.err = NoErr) =>
        /\ View(tm) = [PreView EXCEPT ![last.index + 1].Checked = Shown(last.completed)]
        /\ tm.Items = last.pre.Items
        /\ ToggleTask(tm, last.index, last.completed) = Result(tm, NoErr)

\* A completed task is set to completed again next to another task.
C7_Witness ==
    /\ last.op = "ToggleTask" /\ last.err = NoErr
    /\ last.completed /\ PreView[last.index + 1].Checked = "true"
    /\ \E j \in 1..PreLen : j # last.index + 1 /\ PreView[j].Checked = "false"

\* C8: AddSection fails with 'invalid section level' whenever level is outside
\* 1..6, whatever afterIndex is; with a level in 1..6 it follows the positional
\* contract of AddTask and the new item is a Section of that level with no
\* completion state.
C8_AddSection ==
    last.op = "AddSection" =>
        /\ last.err = (IF last.level < 1 \/ last.level > 6
                       THEN ErrInvalidSectionLevel
                       ELSE IF PositionOk(last.index, PreLen)
                       THEN NoErr ELSE ErrInvalidAfterIndex)
        /\ last.err = NoErr =>
               View(tm) = Inserted(PreView, InsertPos(last.index, PreLen),
                                   [Type |-> TypeSection, Level |-> last.level,
                                    Content |-> last.content, Checked |-> "nil",
                                    Metadata |-> NoMetadata])

\* An invalid level is reported although afterIndex is invalid too.
C8_Witness ==
    /\ last.op = "AddSection" /\ last.err = ErrInvalidSectionLevel
    /\ last.level = 7 /\ last.index = PreLen

(***************************************************************************)
(* Save followed by Load.  A list built through the TaskManager holds any  *)
(* strings the caller passed; rt remembers the list that was saved.        *)
(***************************************************************************)
MaxStrLen == 3

RTChars == {"a", "1", " ", ":", "\"", "\\"}

RTStrings == SeqsUpTo(RTChars, MaxStrLen)

RTSection(level, title) ==
    [Type |-> TypeSection, Level |-> level, Content |-> title,
     Checked |-> "nil", Metadata |-> NoMetadata]

RTTask(level, description, completed, metadata) ==
    [Type |-> TypeTask, Level |-> level, Content |-> description,
     Checked |-> Shown(completed), Metadata |-> metadata]

OneKey(key, value) == [k \in {key} |-> value]

\* The value read from the quoted value "a\n\nb" of a file.
NewlineValue == <<"a", "\n", "\n", "b">>

\* The item under study: one of its strings ranges over RTStrings.
RTItems ==
    {RTSection(l, s) : l \in {1, 6}, s \in RTStrings}
        \cup {RTTask(0, s, c, NoMetadata) : s \in RTStrings, c \in BOOLEAN}
        \cup {RTTask(0, s, FALSE, OneKey(<<"k">>, <<"v">>)) : s \in RTStrings}
        \cup {RTTask(0, <<"t">>, TRUE, OneKey(s, <<"v">>)) : s \in RTStrings}
        \cup {RTTask(0, <<"t">>, FALSE, OneKey(<<"k">>, s)) : s \in RTStrings}
        \cup {RTTask(0, << >>, FALSE,
                     [k \in {<<"k">>, <<"b">>} |-> IF k = <<"k">> THEN s ELSE <<"v">>])
                  : s \in RTStrings}
        \cup {RTTask(0, <<"t">>, FALSE, OneKey(<<"k">>, NewlineValue))}

\* The items before and after it.
RTContexts ==
    {[pre |-> << >>, post |-> << >>],
     [pre |-> <<RTSection(1, <<"s">>)>>,
      post |-> <<RTTask(2, <<"t">>, TRUE, NoMetadata)>>],
     [pre |-> <<RTTask(0, <<"t">>, FALSE, NoMetadata)>>,
      post |-> <<RTSection(2, <<"s">>)>>]}

InitRT ==
    /\ \E ctx \in RTContexts, it \in RTItems :
           tm = Canon(Loaded(ctx.pre \o <<it>> \o ctx.post))
    /\ rt = [op |-> "rt", pc |-> "built", saved |-> << >>, resaved |-> FALSE,
             prevSaved |-> << >>, prev |-> << >>]
    /\ file = << >>
    /\ last = Idle
    /\ ui = Idle
    /\ inv = Idle

\* TaskManager.Save: saveToFile creates the file and writes the buffer.  rt
\* keeps the list saved, and from the save before it the list and the text.
RTSave ==
    /\ rt.pc \in {"built", "loaded"}
    /\ file' = saveToFile(tm)
    /\ rt' = [rt EXCEPT !.pc = "saved", !.saved = View(tm),
                        !.resaved = rt.pc = "loaded",
                        !.prevSaved = rt.saved, !.prev = file]
    /\ UNCHANGED <<tm, last, ui, inv>>

\* TaskManager.Load: the items are replaced by what the file parses to.
RTLoad ==
    /\ rt.pc = "saved"
    /\ tm' = Canon(Loaded(parseMarkdownFile(file)))
    /\ rt' = [rt EXCEPT !.pc = "loaded"]
    /\ UNCHANGED <<file, last, ui, inv>>

NextRT == RTSave \/ RTLoad

SpecRT == InitRT /\ [][NextRT]_vars

(***************************************************************************)
(* The round trip.                                                         *)
(***************************************************************************)
IsIdentifier(str) == \A i \in 1..Len(str) : IsIdentifierChar(str[i])

\* A metadata key the parser reads back: an identifier that starts with a
\* letter.
SafeKey(key) ==
    key # << >> /\ IsLetter(key[1]) /\ IsIdentifier(key)

\* A value the parser reads back: a bare identifier, or a value with a space
\* (written quoted) that holds no backslash and no newline.
SafeValue(value) ==
    \/ value # << >> /\ IsIdentifier(value)
    \/ /\ ContainsChar(value, " ")
       /\ ~ContainsChar(value, "\\")
       /\ ~ContainsChar(value, "\n")

SafeMetadata(metadata) ==
    \A k \in DOMAIN metadata : SafeKey(k) /\ SafeValue(metadata[k])

\* The word of str that starts at position i.
WordAt(str, i) ==
    LET rest == Drop(str, i - 1)
    IN  SubSeq(rest, 1, Len(rest) - Len(TrimLeft(rest, Range(Ascii) \ {" "})))

\* The word starts as a pair does: letter-led identifier, colon, then a quote
\* or an identifier character.
BeginsPair(word) ==
    LET keyEnd == LeadIn(word, {c \in Range(Ascii) : IsIdentifierChar(c)})
    IN  /\ keyEnd >= 1
        /\ IsLetter(word[1])
        /\ keyEnd + 2 <= Len(word)
        /\ word[keyEnd + 1] = ":"
        /\ (word[keyEnd + 2] = "\"" \/ IsIdentifierChar(word[keyEnd + 2]))

\* Words separated by single spaces, none of which starts as a pair does.
SafeDescription(str) ==
    /\ \A i \in 1..Len(str) : IsSpace(str[i]) => str[i] = " "
    /\ str # << >> => str[1] # " " /\ str[Len(str)] # " "
    /\ \A i \in 1..(Len(str) - 1) : ~(str[i] = " " /\ str[i + 1] = " ")
    /\ \A i \in 1..Len(str) :
           (str[i] # " " /\ (i = 1 \/ str[i - 1] = " ")) => ~BeginsPair(WordAt(str, i))

SafeTitle(str) ==
    /\ str # << >>
    /\ ~IsRegexSpace(str[1])
    /\ str[Len(str)] \notin {" ", "\t", "\r"}
    /\ ~ContainsChar(str, "\n")

RoundTripSafe(item) ==
    IF item.Type = TypeSection
    THEN item.Level \in 1..6 /\ SafeTitle(item.Content)
    ELSE /\ item.Checked # "nil"
         /\ SafeDescription(item.Content)
         /\ SafeMetadata(item.Metadata)
         /\ (item.Content # << >> \/ DOMAIN item.Metadata # {})

\* Same types, section levels, titles and descriptions, completion states
\* and metadata maps, in the same order.
SameItems(a, b) ==
    /\ Len(a) = Len(b)
    /\ \A i \in 1..Len(a) :
           /\ a[i].Type = b[i].Type
           /\ a[i].Content = b[i].Content
           /\ a[i].Checked = b[i].Checked
           /\ DOMAIN a[i].Metadata = DOMAIN b[i].Metadata
           /\ \A k \in DOMAIN a[i].Metadata : a[i].Metadata[k] = b[i].Metadata[k]
           /\ a[i].Type = TypeSection => a[i].Level = b[i].Level

JustLoaded == rt.op = "rt" /\ rt.pc = "loaded"

MaxUIItems == 4

BannerEnabled == 1

BannerDisabled == 2

UIItem(type, level, content, checked, collapsed) ==
    [Type |-> type, Level |-> level, Content |-> content,
     Checked |-> checked, Collapsed |-> collapsed]

calculateViewportHeight(m) ==
    LET usedHeight == (IF m.bannerMode = BannerEnabled THEN 6 ELSE 0)
                          + (IF m.inputMode THEN 3 ELSE 0) + 2
    IN  Max(m.height - usedHeight, 3)

clampScrollOffset(m) ==
    [m EXCEPT !.scrollOffset =
                  Min(Max(@, 0), Max(Len(m.visibleItems) - 1, 0))]

ensureCursorInViewport(m) ==
    IF Len(m.visibleItems) = 0 THEN m
    ELSE LET viewportHeight == calculateViewportHeight(m)
             up == Min(m.cursor, m.scrollOffset)
             down == IF m.cursor >= up + viewportHeight
                     THEN m.cursor - viewportHeight + 1 ELSE up
         IN  clampScrollOffset([m EXCEPT !.scrollOffset = down])

\* A cursor that is never brought back below the visible count.
adjustCursorNoClamp(m) == ensureCursorInViewport(m)

adjustCursor(m) ==
    ensureCursorInViewport(
        IF m.cursor >= Len(m.visibleItems) /\ Len(m.visibleItems) > 0
        THEN [m EXCEPT !.cursor = Len(m.visibleItems) - 1] ELSE m)

\* A stack that keeps a section of the same level as the one that arrives.
RECURSIVE PopDeeperSections(_, _)
PopDeeperSections(sectionStack, level) ==
    IF sectionStack # << >> /\ sectionStack[Len(sectionStack)].Level > level
    THEN PopDeeperSections(SubSeq(sectionStack, 1, Len(sectionStack) - 1), level)
    ELSE sectionStack

\* The stack once the sections that are not ancestors are popped.
RECURSIVE PopSections(_, _)
PopSections(sectionStack, level) ==
    IF sectionStack # << >> /\ sectionStack[Len(sectionStack)].Level >= level
    THEN PopSections(SubSeq(sectionStack, 1, Len(sectionStack) - 1), level)
    ELSE sectionStack

\* The loop of updateVisibleItems from Go index i.
RECURSIVE ScanVisible(_, _, _, _)
ScanVisible(items, i, sectionStack, visibleItems) ==
    IF i >= Len(items) THEN visibleItems
    ELSE LET item == items[i + 1]
             stack == IF item.Type = TypeSection
                      THEN PopSections(sectionStack, item.Level)
                      ELSE sectionStack
             visible == \A k \in 1..Len(stack) : ~stack[k].Collapsed
         IN  ScanVisible(items, i + 1,
                         IF item.Type = TypeSection THEN Append(stack, item) ELSE stack,
                         IF visible THEN Append(visibleItems, i) ELSE visibleItems)

updateVisibleItems(m) ==
    adjustCursor([m EXCEPT !.visibleItems = ScanVisible(m.items, 0, << >>, << >>)])

SetAllCollapsed(items, collapsed) ==
    [i \in 1..Len(items) |->
        IF items[i].Type = TypeSection
        THEN [items[i] EXCEPT !.Collapsed = collapsed] ELSE items[i]]

collapseAll(m) == [m EXCEPT !.items = SetAllCollapsed(@, TRUE)]

expandAll(m) == [m EXCEPT !.items = SetAllCollapsed(@, FALSE)]

getCurrentItemIndex(m) ==
    IF Len(m.visibleItems) = 0 THEN -1 ELSE m.visibleItems[m.cursor + 1]

\* The section cases of handleNavigation: enter toggles the flag, left sets
\* it and right clears it.
SetCollapsed(m, key) ==
    LET itemIndex == getCurrentItemIndex(m)
    IN  IF itemIndex >= 0 /\ m.items[itemIndex + 1].Type = TypeSection
        THEN updateVisibleItems(
                 [m EXCEPT !.items[itemIndex + 1].Collapsed =
                               CASE key = "enter" -> ~@
                                 [] key = "left" -> TRUE
                                 [] key = "right" -> FALSE])
        ELSE m

\* A count that stops at any section.
RECURSIVE CountToSection(_, _, _)
CountToSection(items, i, sectionLevel) ==
    IF i >= Len(items) \/ items[i + 1].Type = TypeSection THEN 0
    ELSE 1 + CountToSection(items, i + 1, sectionLevel)

\* The count loop of Model.deleteItem: the items from Go index i on that
\* belong to the section of level sectionLevel.
RECURSIVE CountUnder(_, _, _)
CountUnder(items, i, sectionLevel) ==
    IF i >= Len(items) THEN 0
    ELSE IF items[i + 1].Type = TypeSection /\ items[i + 1].Level <= sectionLevel
    THEN 0
    ELSE 1 + CountUnder(items, i + 1, sectionLevel)

\* deleteCount of Model.deleteItem for the item at Go index itemIndex.
DeleteCount(items, itemIndex) ==
    IF items[itemIndex + 1].Type = TypeSection
    THEN 1 + CountUnder(items, itemIndex + 1, items[itemIndex + 1].Level)
    ELSE 1

\* Model.deleteItem
ModelDeleteItem(m, itemIndex) ==
    IF itemIndex < 0 \/ itemIndex >= Len(m.items) THEN m
    ELSE [m EXCEPT !.items = SlicesDelete(@, itemIndex,
                                           itemIndex + DeleteCount(@, itemIndex))]

\* A move that exchanges nothing.
SwapNothing(items, i, j) == items

\* m.items[i], m.items[j] = m.items[j], m.items[i] at Go indexes.
SwapItems(items, i, j) ==
    [items EXCEPT ![i + 1] = items[j + 1], ![j + 1] = items[i + 1]]


\* The alt+j and alt+k cases of handleNavigation.
MoveItem(m, key) ==
    LET itemIndex == getCurrentItemIndex(m)
    IN  IF key = "alt+j"
        THEN IF itemIndex >= 0 /\ itemIndex < Len(m.items) - 1
             THEN LET u == updateVisibleItems(
                               [m EXCEPT !.items = SwapItems(@, itemIndex, itemIndex + 1)])
                  IN  IF u.cursor < Len(u.visibleItems) - 1
                      THEN [u EXCEPT !.cursor = @ + 1] ELSE u
             ELSE m
        ELSE IF itemIndex > 0
             THEN LET u == updateVisibleItems(
                               [m EXCEPT !.items = SwapItems(@, itemIndex, itemIndex - 1)])
                  IN  IF u.cursor > 0 THEN [u EXCEPT !.cursor = @ - 1] ELSE u
             ELSE m

\* The ctrl+f and ctrl+b cases.
Page(m, key) ==
    LET viewportHeight == calculateViewportHeight(m)
    IN  IF Len(m.visibleItems) = 0 THEN m
        ELSE IF key = "ctrl+f"
        THEN IF m.scrollOffset + viewportHeight < Len(m.visibleItems)
             THEN [m EXCEPT !.scrollOffset = @ + viewportHeight,
                            !.cursor = m.scrollOffset + viewportHeight]
             ELSE m
        ELSE [m EXCEPT !.scrollOffset = Max(@ - viewportHeight, 0),
                       !.cursor = Max(m.scrollOffset - viewportHeight, 0)]

handleNavigation(m, key) ==
    CASE key = "j" ->
             IF m.cursor < Len(m.visibleItems) - 1
             THEN ensureCursorInViewport([m EXCEPT !.cursor = @ + 1]) ELSE m
      [] key = "k" ->
             IF m.cursor > 0
             THEN ensureCursorInViewport([m EXCEPT !.cursor = @ - 1]) ELSE m
      [] key \in {"enter", "left", "right"} -> SetCollapsed(m, key)
      [] key = "-" -> updateVisibleItems(collapseAll(m))
      [] key = "+" -> updateVisibleItems(expandAll(m))
      [] key = "n" ->
             [m EXCEPT !.inputMode = TRUE, !.inputText = << >>, !.inputCursor = 0,
                       !.editingIndex = -1, !.newSectionLevel = 0]
      [] key = "h" -> [m EXCEPT !.hMode = TRUE]
      [] key = "e" ->
             LET itemIndex == getCurrentItemIndex(m)
             IN  IF itemIndex >= 0
                 THEN [m EXCEPT !.inputMode = TRUE,
                                !.inputText = m.items[itemIndex + 1].Content,
                                !.inputCursor = Len(m.items[itemIndex + 1].Content),
                                !.editingIndex = itemIndex]
                 ELSE m
      [] key \in {"alt+j", "alt+k"} -> MoveItem(m, key)
      [] key = "d" ->
             LET itemIndex == getCurrentItemIndex(m)
             IN  IF itemIndex >= 0
                 THEN adjustCursor(updateVisibleItems(ModelDeleteItem(m, itemIndex)))
                 ELSE m
      [] key \in {"ctrl+f", "ctrl+b"} -> Page(m, key)
      [] OTHER -> m

exitInputMode(m) ==
    [m EXCEPT !.inputMode = FALSE, !.inputText = << >>, !.inputCursor = 0,
              !.editingIndex = -1, !.newSectionLevel = 0]

\* The cursor on the visible position of the Go index, when it has one.
CursorOn(m, index) ==
    IF \E i \in 1..Len(m.visibleItems) : m.visibleItems[i] = index
    THEN [m EXCEPT !.cursor =
                       (CHOOSE i \in 1..Len(m.visibleItems) :
                            m.visibleItems[i] = index) - 1]
    ELSE m

\* The closure saveInput of handleInputMode.
saveInput(m) ==
    IF m.editingIndex >= 0
    THEN exitInputMode([m EXCEPT !.items[m.editingIndex + 1].Content = m.inputText])
    ELSE LET newItem == IF m.newSectionLevel > 0
                        THEN UIItem(TypeSection, m.newSectionLevel, m.inputText,
                                    "nil", FALSE)
                        ELSE UIItem(TypeTask, 0, m.inputText, "false", FALSE)
             itemIndex == getCurrentItemIndex(m)
         IN  IF Len(m.items) = 0
             THEN exitInputMode(
                      [updateVisibleItems([m EXCEPT !.items = <<newItem>>])
                          EXCEPT !.cursor = 0])
             ELSE IF itemIndex >= 0
             THEN LET placed ==
                          IF m.newSectionLevel = 0
                             /\ m.items[itemIndex + 1].Type = TypeTask
                          THEN [newItem EXCEPT !.Level = m.items[itemIndex + 1].Level]
                          ELSE newItem
                  IN  exitInputMode(
                          CursorOn(updateVisibleItems(
                                       [m EXCEPT !.items =
                                            SlicesInsert(@, itemIndex + 1, placed)]),
                                   itemIndex + 1))
             ELSE exitInputMode(m)

\* handleInputMode: enter, esc, backspace and the keys of one character.
handleInputMode(m, key) ==
    CASE key = "enter" -> saveInput(m)
      [] key = "esc" -> exitInputMode(m)
      [] key = "backspace" ->
             IF m.inputCursor > 0
             THEN [m EXCEPT !.inputText = SubSeq(@, 1, m.inputCursor - 1)
                                              \o SubSeq(@, m.inputCursor + 1, Len(@)),
                            !.inputCursor = @ - 1]
             ELSE m
      [] OTHER ->
             [m EXCEPT !.inputText = SubSeq(@, 1, m.inputCursor) \o <<key>>
                                         \o SubSeq(@, m.inputCursor + 1, Len(@)),
                       !.inputCursor = @ + 1]

\* handleHMode: a digit 1..6 opens the input for a section of that level, any
\* other key leaves the mode.
handleHMode(m, key) ==
    IF key \in {"1", "2", "3", "4", "5", "6"}
    THEN [m EXCEPT !.inputMode = TRUE, !.inputText = << >>, !.inputCursor = 0,
                   !.editingIndex = -1,
                   !.newSectionLevel =
                       CHOOSE l \in 1..6 : <<"1", "2", "3", "4", "5", "6">>[l] = key,
                   !.hMode = FALSE]
    ELSE [m EXCEPT !.hMode = FALSE]

\* Update on tea.KeyMsg (the help screen is never opened).
Update(m, key) ==
    IF m.inputMode THEN handleInputMode(m, key)
    ELSE IF m.hMode THEN handleHMode(m, key)
    ELSE handleNavigation(m, key)

\* Items as parseMarkdownFile of the interactive program reports them.
UIFileItems ==
    {UIItem(TypeSection, l, <<"s">>, "nil", FALSE) : l \in {1, 2}}
        \cup {UIItem(TypeTask, 0, <<"t">>, "false", FALSE)}

Keys == {"j", "k", "enter", "left", "right", "-", "+"}

Heights == {4, 24}

\* The banner flag of the command line.
BannerModes == {BannerDisabled}

NoMark == [index |-> -1, items |-> << >>, visibleItems |-> << >>,
           expanded |-> FALSE]

\* initialModel.  ui.mark remembers the level-1 section that a key collapsed
\* under the cursor, with the items and the visible list of that moment and
\* whether a key has expanded it again; it is dropped when a key changes the
\* items in any other way.
InitUI ==
    /\ \E items \in SeqsUpTo(UIFileItems, MaxUIItems), bannerMode \in BannerModes :
           ui = [op |-> "ui",
                 m |-> updateVisibleItems(
                           [items |-> items, cursor |-> 0, visibleItems |-> << >>,
                            scrollOffset |-> 0, inputMode |-> FALSE,
                            height |-> 24, bannerMode |-> bannerMode]),
                 mark |-> NoMark]
    /\ tm = Idle
    /\ last = Idle
    /\ file = << >>
    /\ rt = Idle
    /\ inv = Idle

\* Update on tea.WindowSizeMsg.
UpdateWindowSize ==
    /\ \E height \in Heights : ui' = [ui EXCEPT !.m.height = height]
    /\ UNCHANGED <<tm, last, file, rt, inv>>

\* Update on tea.KeyMsg outside help, input and h mode.
UpdateKey ==
    /\ \E key \in Keys :
           LET m == handleNavigation(ui.m, key)
               itemIndex == getCurrentItemIndex(ui.m)
               onLevel1 == /\ itemIndex >= 0
                           /\ ui.m.items[itemIndex + 1].Type = TypeSection
                           /\ ui.m.items[itemIndex + 1].Level = 1
               collapses == /\ onLevel1
                            /\ key \in {"enter", "left"}
                            /\ ~ui.m.items[itemIndex + 1].Collapsed
               expands == /\ onLevel1
                          /\ key \in {"enter", "right"}
                          /\ ui.m.items[itemIndex + 1].Collapsed
                          /\ ui.mark.index = itemIndex
                          /\ ~ui.mark.expanded
               mark == IF collapses
                       THEN [index |-> itemIndex, items |-> ui.m.items,
                             visibleItems |-> ui.m.visibleItems, expanded |-> FALSE]
                       ELSE IF expands THEN [ui.mark EXCEPT !.expanded = TRUE]
                       ELSE IF m.items # ui.m.items THEN NoMark
                       ELSE ui.mark
           IN  ui' = [op |-> "ui", m |-> m, mark |-> mark]
    /\ UNCHANGED <<tm, last, file, rt, inv>>

NextUI == UpdateWindowSize \/ UpdateKey

SpecUI == InitUI /\ [][NextUI]_vars

(***************************************************************************)
(* Collapsing and expanding a level-1 section.                             *)
(***************************************************************************)
\* The Go index of the first level-1 section after Go index s, or the length.
NextTopSection(items, s) ==
    LET later == {j \in (s + 1)..(Len(items) - 1) :
                      items[j + 1].Type = TypeSection /\ items[j + 1].Level <= 1}
    IN  IF later = {} THEN Len(items)
        ELSE CHOOSE j \in later : \A k \in later : j <= k

\* Length, order and contents are those at the collapse; only the collapsed
\* flag of the marked section may differ.
SequenceKept ==
    /\ Len(ui.m.items) = Len(ui.mark.items)
    /\ \A i \in 1..Len(ui.m.items) :
           /\ ui.m.items[i].Type = ui.mark.items[i].Type
           /\ ui.m.items[i].Level = ui.mark.items[i].Level
           /\ ui.m.items[i].Content = ui.mark.items[i].Content
           /\ ui.m.items[i].Checked = ui.mark.items[i].Checked
           /\ i # ui.mark.index + 1 =>
                  ui.m.items[i].Collapsed = ui.mark.items[i].Collapsed

Collapsed1 == ui.op = "ui" /\ ui.mark.index >= 0 /\ ~ui.mark.expanded

Expanded1 == ui.op = "ui" /\ ui.mark.index >= 0 /\ ui.mark.expanded

IsSorted(indexes) ==
    \A i \in 1..(Len(indexes) - 1) : indexes[i] < indexes[i + 1]

\* C9: once a key has collapsed the level-1 section under the cursor, the
\* section is visible, exactly the items after it and before the next
\* level-1 section are hidden, and every other item is as visible as it
\* was; once a key has expanded it again, exactly what was visible before
\* the collapse is visible; length, order and contents of the items are
\* those from before the collapse throughout.
C9_CollapseExpand ==
    /\ Collapsed1 =>
           /\ ui.m.items[ui.mark.index + 1].Collapsed
           /\ ~ui.mark.items[ui.mark.index + 1].Collapsed
           /\ ui.mark.index \in Range(ui.m.visibleItems)
           /\ IsSorted(ui.m.visibleItems)
           /\ \A j \in 0..(Len(ui.m.items) - 1) :
                  j \in Range(ui.m.visibleItems) <=>
                      /\ j \in Range(ui.mark.visibleItems)
                      /\ ~(/\ ui.mark.index < j
                           /\ j < NextTopSection(ui.mark.items, ui.mark.index))
           /\ SequenceKept
    /\ Expanded1 =>
           /\ ui.m.visibleItems = ui.mark.visibleItems
           /\ ui.m.items = ui.mark.items

\* A level-1 section followed by a collapsed level-2 section with an item
\* under it and by another level-1 section was collapsed and is expanded
\* again: the level-2 section is back, its item is still hidden, the later
\* level-1 section was visible all along.
C9_Witness ==
    /\ Expanded1
    /\ NextTopSection(ui.m.items, ui.mark.index) < Len(ui.m.items)
    /\ NextTopSection(ui.m.items, ui.mark.index) \in Range(ui.m.visibleItems)
    /\ \E j \in (ui.mark.index + 1)..(NextTopSection(ui.m.items, ui.mark.index) - 2) :
           /\ j \in Range(ui.m.visibleItems)
           /\ j + 1 \notin Range(ui.m.visibleItems)
    /\ ui.m.visibleItems = ui.mark.visibleItems

(***************************************************************************)
(* Two invocations of the command line program on one file.  Each loads,   *)
(* applies its command and saves; Save creates (truncates) the file and    *)
(* then writes its buffer at offset 0 of its own descriptor.               *)
(***************************************************************************)
MaxFileItems == 2

Procs == {1, 2}

Other(p) == 3 - p

Commands == {"done", "undo", "rm"}

\* Files to start from: tasks "a" (open) and "b" (completed).
CLIFiles ==
    {saveToFile(Loaded(v)) :
        v \in SeqsUpTo({RTTask(0, <<"a">>, FALSE, NoMetadata),
                        RTTask(0, <<"b">>, TRUE, NoMetadata)}, MaxFileItems)}

\* handleDone, handleUndo and handleRemove after Load, on the 0-based index.
Mutate(cmd, t, index) ==
    CASE cmd = "done" -> ToggleTask(t, index, TRUE)
      [] cmd = "undo" -> ToggleTask(t, index, FALSE)
      [] cmd = "rm" -> RemoveItem(t, index)

\* os.Create.
Truncated == << >>

\* WriteString at offset 0 of a file that may hold more than the buffer.
WriteAt0(contents, buf) ==
    IF Len(contents) > Len(buf) THEN buf \o Drop(contents, Len(buf)) ELSE buf

\* inv.loadsFirst: no Load ran after a Save began; inv.overlap: a Save began
\* while the other had created and not yet written; inv.lastWrite: the
\* invocation that wrote last.
InitCLI ==
    /\ file \in CLIFiles
    /\ \E cmds \in [Procs -> Commands], ids \in [Procs -> 1..MaxFileItems] :
           inv = [op |-> "cli", original |-> file,
                  p |-> [p \in Procs |->
                            [pc |-> "start", cmd |-> cmds[p], index |-> ids[p] - 1,
                             tm |-> Loaded(<< >>), err |-> NoErr]],
                  loadsFirst |-> TRUE, overlap |-> FALSE, lastWrite |-> 0]
    /\ tm = Idle
    /\ last = Idle
    /\ rt = Idle
    /\ ui = Idle

\* tm.Load()
CLILoad(p) ==
    /\ inv.p[p].pc = "start"
    /\ inv' = [inv EXCEPT !.p[p].pc = "loaded",
                          !.p[p].tm = Canon(Loaded(parseMarkdownFile(file))),
                          !.loadsFirst = @ /\ \A q \in Procs :
                                                  inv.p[q].pc \notin {"created", "done"}]
    /\ UNCHANGED <<tm, last, file, rt, ui>>

\* The command's call on the TaskManager; an error prints and exits with 1.
CLIMutate(p) ==
    /\ inv.p[p].pc = "loaded"
    /\ LET r == Mutate(inv.p[p].cmd, inv.p[p].tm, inv.p[p].index)
       IN  inv' = IF r.err # NoErr
                  THEN [inv EXCEPT !.p[p].pc = "exit1", !.p[p].err = r.err]
                  ELSE [inv EXCEPT !.p[p].pc = "mutated", !.p[p].tm = Canon(r.tm)]
    /\ UNCHANGED <<tm, last, file, rt, ui>>

\* tm.Save(), first half: saveToFile builds its buffer and creates the file.
CLICreate(p) ==
    /\ inv.p[p].pc = "mutated"
    /\ file' = Truncated
    /\ inv' = [inv EXCEPT !.p[p].pc = "created",
                          !.overlap = @ \/ inv.p[Other(p)].pc = "created"]
    /\ UNCHANGED <<tm, last, rt, ui>>

\* tm.Save(), second half: the buffer is written and success is printed.
CLIWrite(p) ==
    /\ inv.p[p].pc = "created"
    /\ file' = WriteAt0(file, saveToFile(inv.p[p].tm))
    /\ inv' = [inv EXCEPT !.p[p].pc = "done", !.lastWrite = p]
    /\ UNCHANGED <<tm, last, rt, ui>>

NextCLI == \E p \in Procs : CLILoad(p) \/ CLIMutate(p) \/ CLICreate(p) \/ CLIWrite(p)

SpecCLI == InitCLI /\ [][NextCLI]_vars

(***************************************************************************)
(* Lost updates.                                                           *)
(***************************************************************************)
BothSaved ==
    /\ inv.op = "cli"
    /\ \A p \in Procs : inv.p[p].pc = "done"
    /\ inv.loadsFirst

\* The text the invocation that wrote last produces from the original file
\* on its own.
LaterAlone ==
    LET p == inv.p[inv.lastWrite]
    IN  saveToFile(Mutate(p.cmd, Loaded(parseMarkdownFile(inv.original)), p.index).tm)

\* C10 as stated: when both invocations loaded before either saved and both
\* have saved, the file is the text of the later save, which is the original
\* with the later mutation alone, and neither invocation reported an error.
C10_Original ==
    BothSaved =>
        /\ file = saveToFile(inv.p[inv.lastWrite].tm)
        /\ file = LaterAlone
        /\ \A p \in Procs : inv.p[p].err = NoErr

\* C10, saves that do not overlap: when the later invocation creates the
\* file after the earlier one has written, the file is the later text.
C10_SerialSaves ==
    (BothSaved /\ ~inv.overlap) =>
        /\ file = saveToFile(inv.p[inv.lastWrite].tm)
        /\ file = LaterAlone
        /\ \A p \in Procs : inv.p[p].err = NoErr

\* C10, saves that overlap: the file is the last written text laid over the
\* start of the other text.
C10_OverlappingSaves ==
    (BothSaved /\ inv.overlap) =>
        file = WriteAt0(saveToFile(inv.p[Other(inv.lastWrite)].tm),
                        saveToFile(inv.p[inv.lastWrite].tm))

\* Both loaded first, both saved without error, and the file is the text of
\* neither save.
C10_Witness ==
    /\ BothSaved
    /\ \A p \in Procs : inv.p[p].err = NoErr /\ file # saveToFile(inv.p[p].tm)

(***************************************************************************)
(* Saving, loading and saving again.                                       *)
(***************************************************************************)
Resaved == rt.op = "rt" /\ rt.pc = "saved" /\ rt.resaved

Run(c, n) == [c |-> c, n |-> n]

Packed(text) == [i \in 1..Len(text) |-> Run(text[i], 1)]

RECURSIVE Unpacked(_)
Unpacked(runs) ==
    IF runs = << >> THEN << >>
    ELSE [j \in 1..Head(runs).n |-> Head(runs).c] \o Unpacked(Tail(runs))

BoxInputs ==
    {[indent |-> i, gap |-> g, box |-> b, sep |-> sp, text |-> t,
      line |-> i \o <<"-">> \o g \o <<"[">> \o b \o <<"]">> \o sp \o t] :
        i \in {<< >>, <<" ">>, <<"\t", " ">>},
        g \in {<<" ">>, << >>, <<" ", " ">>},
        b \in {<<"x">>, <<"X">>, <<" ">>, <<"a">>, <<"\t">>, << >>, <<" ", " ">>},
        sp \in {<<" ">>, << >>, <<"\t">>},
        t \in {<<"a">>, << >>, <<"k", ":", "v">>, <<"a", " ", "b">>}}

\* bufio.MaxScanTokenSize, the buffer limit of a Scanner from NewScanner.
MaxScanTokenSize == 65536

ErrTooLong == "bufio.Scanner: token too long"

\* Scan gives up on a line that does not fit the buffer: scanner.Err().
TokenTooLong(text) ==
    \E i \in 1..(Len(text) - MaxScanTokenSize + 1) :
        \A j \in 0..(MaxScanTokenSize - 1) : text[i + j] # "\n"

MaxLines == 3

\* Lines of a file, each with the items it stands for: a section, two tasks,
\* then a blank line, prose, a wrong box, seven hashes, a dash without gap,
\* and a line that exceeds the scanner's buffer.
FileLines ==
    {[text |-> Packed(<<"#", " ", "s">>), items |-> <<RTSection(1, <<"s">>)>>],
     [text |-> Packed(<<"-", " ", "[", " ", "]", " ", "a">>),
      items |-> <<RTTask(0, <<"a">>, FALSE, NoMetadata)>>],
     [text |-> Packed(<<" ", " ", "-", " ", "[", "x", "]", " ", "b", " ", "k", ":", "v">>),
      items |-> <<RTTask(2, <<"b">>, TRUE, OneKey(<<"k">>, <<"v">>))>>],
     [text |-> Packed(<< >>), items |-> << >>],
     [text |-> Packed(<<"a", " ", "b">>), items |-> << >>],
     [text |-> Packed(<<"-", " ", "[", "y", "]", " ", "a">>), items |-> << >>],
     [text |-> Packed(Repeat("#", 7) \o <<" ", "s">>), items |-> << >>],
     [text |-> Packed(<<"-", "[", " ", "]", " ", "a">>), items |-> << >>]}

LongLine == [text |-> <<Run("a", MaxScanTokenSize)>>, items |-> << >>]

\* The lines, each ended by a newline; the last newline may be missing.
RECURSIVE TextOf(_, _)
TextOf(lines, eol) ==
    IF lines = << >> THEN << >>
    ELSE IF Len(lines) = 1
         THEN lines[1].text \o (IF eol THEN Packed(<<"\n">>) ELSE << >>)
    ELSE lines[1].text \o Packed(<<"\n">>) \o TextOf(Tail(lines), eol)

\* Words of a task line, each with the pairs and the description words it
\* stands for: a plain word, a key without value, a value without key, keys
\* that start with a digit, a URL shape, two pairs with the same key, and a
\* pair followed by more characters in the same word.
Words ==
    {[text |-> <<"a">>,
      pairs |-> <<>>, plain |-> <<<<"a">>>>],
     [text |-> <<"n", ":">>,
      pairs |-> <<>>, plain |-> <<<<"n", ":">>>>],
     [text |-> <<":", "v">>,
      pairs |-> <<>>, plain |-> <<<<":", "v">>>>],
     [text |-> <<"1", ":", "2">>,
      pairs |-> <<>>, plain |-> <<<<"1", ":", "2">>>>],
     [text |-> <<"1", "a", ":", "b">>,
      pairs |-> <<>>, plain |-> <<<<"1", "a", ":", "b">>>>],
     [text |-> <<"h", ":", "/", "/", "e">>,
      pairs |-> <<>>, plain |-> <<<<"h", ":", "/", "/", "e">>>>],
     [text |-> <<"k", ":", "v">>,
      pairs |-> <<[key |-> <<"k">>, value |-> <<"v">>]>>, plain |-> <<>>],
     [text |-> <<"k", ":", "1">>,
      pairs |-> <<[key |-> <<"k">>, value |-> <<"1">>]>>, plain |-> <<>>],
     [text |-> <<"j", ":", "v", ":", "w">>,
      pairs |-> <<[key |-> <<"j">>, value |-> <<"v">>]>>, plain |-> <<<<":", "w">>>>],
     [text |-> <<"j", ":", "\"", "a", "\"", "b">>,
      pairs |-> <<[key |-> <<"j">>, value |-> <<"a">>]>>, plain |-> <<<<"b">>>>]}

\* Words with a quote: one that is never closed, one closed after a space.
QuoteWords ==
    {[text |-> <<"s", ":", "\"", "i">>,
      pairs |-> <<>>, plain |-> <<<<"s", ":", "\"", "i">>>>],
     [text |-> <<"q", ":", "\"", "a", " ", "b", "\"">>,
      pairs |-> <<[key |-> <<"q">>, value |-> <<"a", " ", "b">>]>>, plain |-> <<>>]}

MaxWords == 2

\* The words of a line with sep between them.
RECURSIVE JoinWords(_, _)
JoinWords(words, sep) ==
    IF words = << >> THEN << >>
    ELSE IF Len(words) = 1 THEN words[1].text
    ELSE words[1].text \o sep \o JoinWords(Tail(words), sep)

WordInputs ==
    {[words |-> w \o l, sep |-> sep] :
        w \in SeqsUpTo(Words, MaxWords),
        l \in {<< >>} \cup {<<x>> : x \in QuoteWords},
        sep \in {<<" ">>, <<"\t", " ">>}}

\* Pieces of a quoted value as written in the line, each with the character
\* it stands for: two plain characters and five escapes.
Units ==
    {[src |-> <<"a">>, val |-> "a"],
     [src |-> <<" ">>, val |-> " "],
     [src |-> <<"\\", "\"">>, val |-> "\""],
     [src |-> <<"\\", "\\">>, val |-> "\\"],
     [src |-> <<"\\", "n">>, val |-> "\n"],
     [src |-> <<"\\", "t">>, val |-> "\t"],
     [src |-> <<"\\", "a">>, val |-> "a"]}

MaxUnits == 3

\* The pieces as written, one after the other.
RECURSIVE Written(_)
Written(units) ==
    IF units = << >> THEN << >> ELSE Head(units).src \o Written(Tail(units))

QuotedInputs ==
    {[units |-> u, tail |-> t] :
        u \in SeqsUpTo(Units, MaxUnits),
        t \in {<< >>, <<" ", "b">>, <<"b", "\"">>}}

StartParse(fam, gen, text) ==
    /\ file = text
    /\ rt = [op |-> "parse", pc |-> "text", fam |-> fam, gen |-> gen,
             task |-> NotATask, err |-> NoErr]
    /\ tm = Loaded(<< >>)
    /\ last = Idle
    /\ ui = Idle
    /\ inv = Idle

InitParse ==
    \/ \E g \in BoxInputs : StartParse("box", g, Packed(g.line))
    \/ \E lines \in SeqsUpTo(FileLines, MaxLines), eol \in BOOLEAN :
           StartParse("lines", lines, TextOf(lines, eol))
    \/ \E g \in WordInputs :
           StartParse("words", g,
                      Packed(<<"-", " ", "[", " ", "]", " ">> \o JoinWords(g.words, g.sep)))
    \/ \E g \in QuotedInputs :
           StartParse("quoted", g,
                      Packed(<<"-", " ", "[", " ", "]", " ", "k", ":", "\"">>
                                 \o Written(g.units) \o <<"\"">> \o g.tail))
    \/ \E before \in {<< >>, <<[text |-> Packed(<<"#", " ", "s">>),
                                 items |-> <<RTSection(1, <<"s">>)>>]>>} :
           StartParse("lines", before \o <<LongLine>>,
                      TextOf(before \o <<LongLine>>, TRUE))

\* TaskManager.Load on the text: an error of parseMarkdownFile is returned
\* and the items stay as they were.
PLoad ==
    /\ rt.pc = "text"
    /\ IF TokenTooLong(Unpacked(file))
       THEN tm' = tm /\ rt' = [rt EXCEPT !.pc = "loaded", !.err = ErrTooLong]
       ELSE /\ tm' = Canon(Loaded(parseMarkdownFile(Unpacked(file))))
            /\ rt' = [rt EXCEPT !.pc = "loaded"]
    /\ UNCHANGED <<file, last, ui, inv>>

\* parseTask on a text of one line.
PParseTask ==
    /\ rt.pc = "loaded"
    /\ rt.fam # "lines"
    /\ rt' = [rt EXCEPT !.pc = "parsed", !.task = parseTask(Unpacked(file))]
    /\ UNCHANGED <<tm, file, last, ui, inv>>

NextParse == PLoad \/ PParseTask

SpecParse == InitParse /\ [][NextParse]_vars

(***************************************************************************)
(* Checkbox lines.                                                         *)
(***************************************************************************)
BoxLoaded == rt.op = "parse" /\ rt.fam = "box" /\ rt.pc # "text"

\* Optional leading whitespace, "- [", one character, "]", whitespace and
\* non-empty text.
BoxShape ==
    /\ rt.gen.gap = <<" ">>
    /\ Len(rt.gen.box) = 1
    /\ rt.gen.sep # << >>
    /\ rt.gen.text # << >>

OneTask(completed) ==
    /\ Len(tm.Items) = 1
    /\ View(tm)[1].Type = TypeTask
    /\ View(tm)[1].Checked = Shown(completed)

\* C12 as stated: a line of that shape with x, X or a space in the box loads
\* as one Task, completed for x and X and incomplete for a space; with any
\* other character in the box it loads as nothing.
C12_Original ==
    (BoxLoaded /\ BoxShape) =>
        IF rt.gen.box \in {<<"x">>, <<"X">>, <<" ">>}
        THEN OneTask(rt.gen.box # <<" ">>)
        ELSE tm.Items = << >>

\* C12, what Load does: x gives a completed Task, a space or a tab gives an
\* incomplete Task, X and any other character give nothing.
C12_LoadBox ==
    (BoxLoaded /\ BoxShape) =>
        CASE rt.gen.box = <<"x">> -> OneTask(TRUE)
          [] rt.gen.box \in {<<" ">>, <<"\t">>} -> OneTask(FALSE)
          [] OTHER -> tm.Items = << >>

\* "- [X] a" was loaded: parseTask reads a completed task from the line, Load
\* dropped it.
C12_Witness ==
    /\ BoxLoaded
    /\ BoxShape
    /\ rt.pc = "parsed"
    /\ rt.gen.box = <<"X">>
    /\ rt.task.ok
    /\ rt.task.Completed
    /\ tm.Items = << >>

(***************************************************************************)
(* Lines that are not recognised.                                          *)
(***************************************************************************)
LinesLoaded == rt.op = "parse" /\ rt.fam = "lines" /\ rt.pc # "text"

\* The items the lines stand for, in file order.
RECURSIVE ItemsOf(_)
ItemsOf(lines) ==
    IF lines = << >> THEN << >> ELSE Head(lines).items \o ItemsOf(Tail(lines))

\* The lines that stand for an item.
RECURSIVE Recognised(_)
Recognised(lines) ==
    IF lines = << >> THEN << >>
    ELSE (IF Head(lines).items # << >> THEN <<Head(lines)>> ELSE << >>)
             \o Recognised(Tail(lines))

\* C13 as stated: whatever unrecognised lines a file holds, Load does not
\* fail and the loaded items are those of the recognised lines, in order.
C13_Original ==
    LinesLoaded => rt.err = NoErr /\ View(tm) = ItemsOf(rt.gen)

\* C13, lines that fit the scanner's buffer: Load does not fail, the loaded
\* items are those of the recognised lines in file order, and they are the
\* items loaded from the file without its unrecognised lines.
C13_IgnoredLines ==
    (LinesLoaded /\ \A i \in 1..Len(rt.gen) : Len(Unpacked(rt.gen[i].text)) < MaxScanTokenSize)
        => /\ rt.err = NoErr
           /\ View(tm) = ItemsOf(rt.gen)
           /\ View(tm) = parseMarkdownFile(Unpacked(TextOf(Recognised(rt.gen), TRUE)))

\* A section line followed by a line of MaxScanTokenSize characters: Load
\* failed and the section was not loaded.
C13_Witness ==
    /\ LinesLoaded
    /\ Len(rt.gen) = 2
    /\ ItemsOf(rt.gen) # << >>
    /\ rt.err = ErrTooLong
    /\ tm.Items = << >>

\* Three lines, unrecognised ones around a task line, loaded as one task.
C13_WitnessIgnored ==
    /\ LinesLoaded
    /\ Len(rt.gen) = 3
    /\ rt.gen[1].items = << >> /\ rt.gen[1].text # << >>
    /\ rt.gen[2].items # << >>
    /\ rt.gen[3].items = << >> /\ rt.gen[3].text # << >>
    /\ rt.err = NoErr
    /\ View(tm) = rt.gen[2].items

(***************************************************************************)
(* Words and metadata pairs of a task line.                                *)
(***************************************************************************)
WordsParsed == rt.op = "parse" /\ rt.fam = "words" /\ rt.pc = "parsed"

\* The pairs the words stand for, in line order.
RECURSIVE AllPairs(_)
AllPairs(words) ==
    IF words = << >> THEN << >> ELSE Head(words).pairs \o AllPairs(Tail(words))

\* The description words the words stand for, in line order.
RECURSIVE AllPlain(_)
AllPlain(words) ==
    IF words = << >> THEN << >> ELSE Head(words).plain \o AllPlain(Tail(words))

\* The words of which some part is a description word, whole.
RECURSIVE WholePlain(_)
WholePlain(words) ==
    IF words = << >> THEN << >>
    ELSE (IF Head(words).plain # << >> THEN <<Head(words).text>> ELSE << >>)
             \o WholePlain(Tail(words))

\* The value of the last pair with the key.
LastValue(pairs, key) ==
    LET last_ == CHOOSE i \in 1..Len(pairs) :
                     /\ pairs[i].key = key
                     /\ \A j \in (i + 1)..Len(pairs) : pairs[j].key # key
    IN  pairs[last_].value

MapOf(pairs) ==
    [key \in {pairs[i].key : i \in 1..Len(pairs)} |-> LastValue(pairs, key)]

\* The words, single spaces between them.
RECURSIVE Spaced(_)
Spaced(words) ==
    IF words = << >> THEN << >>
    ELSE IF Len(words) = 1 THEN words[1]
    ELSE words[1] \o <<" ">> \o Spaced(Tail(words))

\* C14 as stated: the metadata holds the pairs that could be read, and the
\* description is, in line order and joined by single spaces, the whole
\* whitespace-delimited words in which a pair attempt failed.
C14_Original ==
    WordsParsed =>
        /\ rt.task.Metadata = MapOf(AllPairs(rt.gen.words))
        /\ rt.task.Description = Spaced(WholePlain(rt.gen.words))

\* C14, by attempt position: a pair is attempted at the start of every word
\* and right after every accepted pair; the accepted pairs make the metadata,
\* and each failed attempt puts the characters from its position to the next
\* space or tab into the description, in line order, joined by single spaces.
C14_Words ==
    WordsParsed =>
        /\ rt.task.ok
        /\ rt.task.Metadata = MapOf(AllPairs(rt.gen.words))
        /\ rt.task.Description = Spaced(AllPlain(rt.gen.words))

\* The line `j:v:w a s:"i`: metadata {j: v}, description `:w a s:"i`.
C14_Witness ==
    /\ WordsParsed
    /\ Len(rt.gen.words) = 3
    /\ rt.gen.words[1].text = <<"j", ":", "v", ":", "w">>
    /\ rt.gen.words[2].text = <<"a">>
    /\ rt.gen.words[3].text = <<"s", ":", "\"", "i">>
    /\ rt.task.Metadata = OneKey(<<"j">>, <<"v">>)
    /\ rt.task.Description = <<":", "w", " ", "a", " ", "s", ":", "\"", "i">>

\* The word is key ':' value with both identifiers, the colon at position i.
PairAt(text, i) ==
    /\ text[i] = ":"
    /\ 1 < i /\ i < Len(text)
    /\ IsIdentifier(SubSeq(text, 1, i - 1))
    /\ IsIdentifier(SubSeq(text, i + 1, Len(text)))

\* Some later word holds a pair with the key.
KeyLater(words, i, key) ==
    \E j \in (i + 1)..Len(words) :
        \E n \in 1..Len(words[j].pairs) : words[j].pairs[n].key = key

\* str holds part as consecutive characters.
Holds(str, part) ==
    \E from \in 1..(Len(str) - Len(part) + 1) :
        SubSeq(str, from, from + Len(part) - 1) = part

\* The identifier starts with neither a digit nor '_', '-' or '.'.
LetterLed(key) == ~IsDigit(key[1]) /\ key[1] \notin {"_", "-", "."}

C17_LastWins ==
    WordsParsed =>
        LET pairs == AllPairs(rt.gen.words)
        IN  \A i, j \in 1..Len(pairs) :
                (/\ i < j
                 /\ pairs[i].key = pairs[j].key
                 /\ \A n \in (j + 1)..Len(pairs) : pairs[n].key # pairs[j].key)
                    => /\ pairs[j].key \in DOMAIN rt.task.Metadata
                       /\ rt.task.Metadata[pairs[j].key] = pairs[j].value

\* The line `k:v k:1`: one entry for k, with value 1.
C17_Witness ==
    /\ WordsParsed
    /\ Len(rt.gen.words) = 2
    /\ rt.gen.words[1].text = <<"k", ":", "v">>
    /\ rt.gen.words[2].text = <<"k", ":", "1">>
    /\ rt.task.Metadata = OneKey(<<"k">>, <<"1">>)

(***************************************************************************)
(* Quoted metadata values.                                                 *)
(***************************************************************************)
QuotedParsed == rt.op = "parse" /\ rt.fam = "quoted" /\ rt.pc = "parsed"

\* The characters the pieces stand for.
Meaning(units) == [i \in 1..Len(units) |-> units[i].val]

\* C16: a non-empty quoted value is stored under its key with \" read as a
\* quote, \\ as a backslash, \n as a newline, \t as a tab and any other
\* escaped character as itself; it ends at the first unescaped quote, so
\* what follows that quote is not part of the value.
C16_Quoted ==
    (QuotedParsed /\ rt.gen.units # << >>) =>
        /\ rt.task.ok
        /\ rt.task.Metadata = OneKey(<<"k">>, Meaning(rt.gen.units))
        /\ rt.task.Description = TrimSpace(rt.gen.tail)

\* The line `k:"\"\n\a"b"`: the value is quote, newline, a; `b"` is left.
C16_Witness ==
    /\ QuotedParsed
    /\ Written(rt.gen.units) = <<"\\", "\"", "\\", "n", "\\", "a">>
    /\ rt.gen.tail = <<"b", "\"">>
    /\ rt.task.Metadata = OneKey(<<"k">>, <<"\"", "\n", "a">>)
    /\ rt.task.Description = <<"b", "\"">>

(***************************************************************************)
(* The layout of saved text.                                               *)
(***************************************************************************)
JustSaved == rt.op = "rt" /\ rt.pc = "saved"

\* The lines of a text: the characters before each newline.
RECURSIVE LinesOf(_, _)
LinesOf(text, line) ==
    IF text = << >> THEN (IF line = << >> THEN << >> ELSE <<line>>)
    ELSE IF Head(text) = "\n" THEN <<line>> \o LinesOf(Tail(text), << >>)
    ELSE LinesOf(Tail(text), Append(line, Head(text)))

\* What a line is: blank, a section line, a task line, or something else.
MarkOf(line) ==
    IF line = << >> THEN "blank"
    ELSE IF Head(line) = "#" THEN "section"
    ELSE IF Len(line) >= 2 /\ SubSeq(line, 1, 2) = <<"-", " ">> THEN "task"
    ELSE "other"

MarksOf(text) ==
    LET lines == LinesOf(text, << >>)
    IN  [i \in 1..Len(lines) |-> MarkOf(lines[i])]

\* The lines the claim gives item i of the list.
LayoutOf(items, i) ==
    IF items[i].Type = TypeSection
    THEN (IF i > 1 THEN <<"blank">> ELSE << >>) \o <<"section">>
             \o (IF i < Len(items) /\ items[i + 1].Type # TypeSection
                 THEN <<"blank">> ELSE << >>)
    ELSE <<"task">>

RECURSIVE LayoutFrom(_, _)
LayoutFrom(items, i) ==
    IF i > Len(items) THEN << >>
    ELSE LayoutOf(items, i) \o LayoutFrom(items, i + 1)

NoNewline(item) ==
    /\ ~ContainsChar(item.Content, "\n")
    /\ \A k \in DOMAIN item.Metadata :
           ~ContainsChar(k, "\n") /\ ~ContainsChar(item.Metadata[k], "\n")

\* C18 as stated: the saved text is, item by item, a blank line before a
\* Section that is not first, one non-blank line for the item, and a blank
\* line after a Section followed by a non-Section; no other lines.
C18_Original ==
    JustSaved => MarksOf(file) = LayoutFrom(rt.saved, 1)

\* C18 for lists whose strings hold no newline.
C18_Layout ==
    (JustSaved /\ \A i \in 1..Len(rt.saved) : NoNewline(rt.saved[i]))
        => MarksOf(file) = LayoutFrom(rt.saved, 1)

\* A section, a task with the value a, newline, newline, b, and a task: the
\* saved text has a blank line and a line `b` inside the first task.
C18_Witness ==
    /\ JustSaved
    /\ Len(rt.saved) = 3
    /\ rt.saved[2].Metadata = OneKey(<<"k">>, NewlineValue)
    /\ LayoutFrom(rt.saved, 1) = <<"section", "blank", "task", "task">>
    /\ MarksOf(file) = <<"section", "blank", "task", "blank", "other", "task">>

\* Two sections and a task: no blank line after the first section, one
\* before and one after the second.
C18_WitnessLayout ==
    /\ JustSaved
    /\ Len(rt.saved) = 3
    /\ \A i \in 1..3 : NoNewline(rt.saved[i])
    /\ MarksOf(file) = <<"section", "blank", "section", "blank", "task">>

(***************************************************************************)
(* The text of a saved task.                                               *)
(***************************************************************************)
\* The keys of a map in ascending order.
Ascending(metadata) ==
    CHOOSE keys \in [1..Cardinality(DOMAIN metadata) -> DOMAIN metadata] :
        \A i, j \in DOMAIN keys : i < j => StrLess(keys[i], keys[j])

\* A value as the claim writes it.
RECURSIVE Backslashed(_)
Backslashed(value) ==
    IF value = << >> THEN << >>
    ELSE IF Head(value) = "\"" THEN <<"\\", "\"">> \o Backslashed(Tail(value))
    ELSE <<Head(value)>> \o Backslashed(Tail(value))

ValueText(value) ==
    IF \E i \in 1..Len(value) : value[i] = " "
    THEN <<"\"">> \o Backslashed(value) \o <<"\"">>
    ELSE value

RECURSIVE PairsText(_, _)
PairsText(metadata, keys) ==
    IF keys = << >> THEN << >>
    ELSE <<" ">> \o Head(keys) \o <<":">> \o ValueText(metadata[Head(keys)])
             \o PairsText(metadata, Tail(keys))

TaskLine(item) ==
    (IF item.Checked = "true" THEN <<"-", " ", "[", "x", "]", " ">>
                              ELSE <<"-", " ", "[", " ", "]", " ">>)
        \o item.Content \o PairsText(item.Metadata, Ascending(item.Metadata))

\* The text holds the line, after a newline or at its start, with a newline
\* after it.
HasLine(text, line) ==
    \E from \in 1..(Len(text) - Len(line)) :
        /\ from = 1 \/ text[from - 1] = "\n"
        /\ SubSeq(text, from, from + Len(line) - 1) = line
        /\ text[from + Len(line)] = "\n"

\* C19: every task of the saved list is written as `- [x] ` or `- [ ] `, its
\* description, and its pairs ` key:value` in ascending key order, a value in
\* quotes with \" for each inner quote exactly when it holds a space.
C19_TaskLine ==
    JustSaved =>
        \A i \in 1..Len(rt.saved) :
            rt.saved[i].Type = TypeTask => HasLine(file, TaskLine(rt.saved[i]))

\* A task with the keys b and k, the value of k holding a space and a quote.
C19_Witness ==
    /\ JustSaved
    /\ Len(rt.saved) = 3
    /\ rt.saved[2].Type = TypeTask
    /\ DOMAIN rt.saved[2].Metadata = {<<"b">>, <<"k">>}
    /\ rt.saved[2].Metadata[<<"k">>] = <<" ", "\"">>
    /\ HasLine(file, <<"-", " ", "[", " ", "]", " ", " ", "b", ":", "v", " ",
                       "k", ":", "\"", " ", "\\", "\"", "\"">>)

(***************************************************************************)
(* fuzzyMatch.  A Go string is its sequence of bytes; a character is its   *)
(* code point.  A score is an exact fraction num/den: the float64          *)
(* comparisons of the code agree with it, 5/12 * 0.6 + 0.05 included,      *)
(* which float64 evaluates to 0.3.                                         *)
(***************************************************************************)
\* The UTF-8 bytes of a code point below 2048.
Utf8(r) == IF r < 128 THEN <<r>> ELSE <<192 + (r \div 64), 128 + (r % 64)>>

RECURSIVE Utf8String(_)
Utf8String(runes) ==
    IF runes = << >> THEN << >> ELSE Utf8(Head(runes)) \o Utf8String(Tail(runes))

\* The code points of a UTF-8 string, as `range` yields them.
RECURSIVE RangeRunes(_)
RangeRunes(str) ==
    IF str = << >> THEN << >>
    ELSE IF Head(str) < 128 \/ Len(str) = 1
    THEN <<Head(str)>> \o RangeRunes(Tail(str))
    ELSE <<(str[1] - 192) * 64 + (str[2] - 128)>> \o RangeRunes(Tail(Tail(str)))

\* unicode.ToLower on ASCII and Latin-1.
ToLowerRune(r) ==
    IF (65 <= r /\ r <= 90) \/ (192 <= r /\ r <= 222 /\ r # 215) THEN r + 32 ELSE r

\* strings.ToLower
ToLower(str) ==
    LET runes == RangeRunes(str)
    IN  Utf8String([i \in 1..Len(runes) |-> ToLowerRune(runes[i])])

\* strings.Contains
Contains(str, substr) ==
    \E from \in 1..(Len(str) - Len(substr) + 1) :
        SubSeq(str, from, from + Len(substr) - 1) = substr

Score(num, den) == [num |-> num, den |-> den]

\* The loop over the characters of text: the number of matches.
RECURSIVE matchLoop(_, _, _, _)
matchLoop(pattern, chars, patternIdx, matches) ==
    IF chars = << >> THEN matches
    ELSE IF patternIdx < Len(pattern) /\ Head(chars) = pattern[patternIdx + 1]
    THEN matchLoop(pattern, Tail(chars), patternIdx + 1, matches + 1)
    ELSE matchLoop(pattern, Tail(chars), patternIdx, matches)

fuzzyMatch(pattern0, text0) ==
    LET pattern == ToLower(pattern0)
        text == ToLower(text0)
    IN  IF Len(pattern) = 0 /\ Len(text) = 0 THEN Score(1, 1)
        ELSE IF Len(pattern) = 0 \/ Len(text) = 0 THEN Score(0, 1)
        ELSE IF pattern = text THEN Score(1, 1)
        ELSE IF Contains(text, pattern) THEN Score(8, 10)
        ELSE LET matches == matchLoop(pattern, RangeRunes(text), 0, 0)
             IN  IF matches < Len(pattern) THEN Score(0, 1)
                 ELSE LET \* charMatchRatio * lengthPenalty * 0.6
                          num == matches * Len(pattern) * 6
                          den == Len(pattern) * Len(text) * 10
                          \* score + 0.05 when score > 0
                          num2 == IF num > 0 THEN num * 100 + 5 * den ELSE num * 100
                          den2 == den * 100
                      IN  IF num2 * 10 < 3 * den2 THEN Score(0, 1)
                          ELSE Score(num2, den2)

MaxPatternLen == 2

MaxTextLen == 4

\* a, A, b and e with acute accent.
FuzzyRunes == {97, 65, 98, 233}

InitFuzzy ==
    /\ \E p \in SeqsUpTo(FuzzyRunes, MaxPatternLen),
          t \in SeqsUpTo(FuzzyRunes, MaxTextLen) :
           rt = [op |-> "fuzzy", pc |-> "call", p |-> p, t |-> t,
                 pattern |-> Utf8String(p), text |-> Utf8String(t),
                 score |-> Score(0, 1)]
    /\ tm = Loaded(<< >>)
    /\ file = << >>
    /\ last = Idle
    /\ ui = Idle
    /\ inv = Idle

FuzzyCall ==
    /\ rt.pc = "call"
    /\ rt' = [rt EXCEPT !.pc = "return", !.score = fuzzyMatch(rt.pattern, rt.text)]
    /\ UNCHANGED <<tm, file, last, ui, inv>>

NextFuzzy == FuzzyCall

SpecFuzzy == InitFuzzy /\ [][NextFuzzy]_vars

FuzzyReturned == rt.op = "fuzzy" /\ rt.pc = "return"

\* The characters with capitals replaced by small letters.
Lowered(runes) ==
    [i \in 1..Len(runes) |-> IF runes[i] = 65 THEN 97 ELSE runes[i]]

\* part is a run of consecutive characters of whole.
SubstringOf(part, whole) ==
    \E from \in 0..(Len(whole) - Len(part)) :
        \A i \in 1..Len(part) : whole[from + i] = part[i]

\* The characters of part occur in whole, in order.
InOrder(part, whole) ==
    \E at \in [1..Len(part) -> 1..Len(whole)] :
        /\ \A i, j \in 1..Len(part) : i < j => at[i] < at[j]
        /\ \A i \in 1..Len(part) : whole[at[i]] = part[i]

Same(a, b) == a.num * b.den = b.num * a.den

\* (|pattern| / |text|) * 0.6 + 0.05, or 0 when that is below 0.3; the
\* lengths are those of the strings in bytes.
Formula(np, nt) ==
    IF (60 * np + 5 * nt) * 10 < 3 * (100 * nt) THEN Score(0, 1)
    ELSE Score(60 * np + 5 * nt, 100 * nt)

Expected(p, t, np, nt) ==
    IF p = t THEN Score(1, 1)
    ELSE IF p = << >> \/ t = << >> THEN Score(0, 1)
    ELSE IF SubstringOf(p, t) THEN Score(4, 5)
    ELSE IF ~InOrder(p, t) THEN Score(0, 1)
    ELSE Formula(np, nt)

InRange(score) ==
    \/ score.num = 0
    \/ 3 * score.den <= 10 * score.num /\ score.num <= score.den

\* C20 as stated: the score is 1 for equal strings, 0 when one is empty, 0.8
\* for a substring, 0 when the characters of the pattern do not occur in
\* order, else the formula; every score is 0 or in [0.3, 1].
C20_Original ==
    FuzzyReturned =>
        /\ Same(rt.score, Expected(Lowered(rt.p), Lowered(rt.t),
                                   Len(rt.pattern), Len(rt.text)))
        /\ InRange(rt.score)

\* C20 for patterns of ASCII characters.
C20_AsciiPattern ==
    (FuzzyReturned /\ \A i \in 1..Len(rt.p) : rt.p[i] < 128) =>
        /\ Same(rt.score, Expected(Lowered(rt.p), Lowered(rt.t),
                                   Len(rt.pattern), Len(rt.text)))
        /\ InRange(rt.score)

\* The pattern e-acute, a and the text e-acute, b, a: the characters occur in
\* order, the formula gives 0.5, and the score is 0.
C20_Witness ==
    /\ FuzzyReturned
    /\ rt.p = <<233, 97>>
    /\ rt.t = <<233, 98, 97>>
    /\ InOrder(rt.p, rt.t) /\ ~SubstringOf(rt.p, rt.t)
    /\ Same(Formula(Len(rt.pattern), Len(rt.text)), Score(1, 2))
    /\ rt.score = Score(0, 1)

\* The pattern a, A and the text A, b, a: not a substring, in order, 0.45.
C20_WitnessAscii ==
    /\ FuzzyReturned
    /\ rt.p = <<97, 65>>
    /\ rt.t = <<65, 98, 97>>
    /\ Same(rt.score, Score(45, 100))

(***************************************************************************)
(* searchItems.  Contents and query terms are Go strings (bytes); a result *)
(* holds the item, its index in the list and its score.                    *)
(***************************************************************************)
\* a < b for scores.
ScoreLess(a, b) == a.num * b.den < b.num * a.den

\* The bytes of strings.Join(queries, " ").
RECURSIVE JoinQueries(_)
JoinQueries(queries) ==
    IF queries = << >> THEN << >>
    ELSE IF Len(queries) = 1 THEN queries[1]
    ELSE queries[1] \o <<32>> \o JoinQueries(Tail(queries))

\* strings.TrimSpace(query) == "" for terms of spaces.
IsBlank(query) == \A i \in 1..Len(query) : query[i] = 32

\* The loop over the individual terms: the first term that scores above the
\* combined pattern replaces the running score and ends the loop.
RECURSIVE termLoop(_, _, _, _)
termLoop(queries, content, contentScore, acc) ==
    IF queries = << >> THEN acc
    ELSE IF IsBlank(Head(queries))
    THEN termLoop(Tail(queries), content, contentScore, acc)
    ELSE LET queryScore == fuzzyMatch(Head(queries), content)
         IN  IF ScoreLess(contentScore, queryScore)
             THEN [totalScore |-> queryScore, matchCount |-> 1]
             ELSE termLoop(Tail(queries), content, contentScore, acc)

\* A score that tries the combined pattern only.
itemScoreCombined(content, queries) ==
    LET contentScore == fuzzyMatch(JoinQueries(queries), content)
    IN  [totalScore |-> contentScore,
         matchCount |-> IF contentScore.num > 0 THEN 1 ELSE 0]

\* totalScore and matchCount of one item.
itemScore(content, queries) ==
    LET contentScore == fuzzyMatch(JoinQueries(queries), content)
        start == IF contentScore.num > 0
                 THEN [totalScore |-> contentScore, matchCount |-> 1]
                 ELSE [totalScore |-> Score(0, 1), matchCount |-> 0]
    IN  termLoop(queries, content, contentScore, start)

\* The results before sorting, from item i on.
RECURSIVE collect(_, _, _)
collect(items, queries, i) ==
    IF i > Len(items) THEN << >>
    ELSE LET sc == itemScore(items[i].Content, queries)
         IN  (IF ScoreLess(Score(3, 10), sc.totalScore)
              THEN <<[Item |-> items[i], Index |-> i - 1,
                      Score |-> Score(sc.totalScore.num,
                                      sc.totalScore.den * sc.matchCount)]>>
              ELSE << >>) \o collect(items, queries, i + 1)

Swap(results, i, j) ==
    [results EXCEPT ![i] = results[j], ![j] = results[i]]

\* The two nested loops of the sort, at positions i < j (from 1).
RECURSIVE sortLoop(_, _, _)
sortLoop(results, i, j) ==
    IF i > Len(results) - 1 THEN results
    ELSE IF j > Len(results) THEN sortLoop(results, i + 1, i + 2)
    ELSE IF ScoreLess(results[i].Score, results[j].Score)
    THEN sortLoop(Swap(results, i, j), i, j + 1)
    ELSE sortLoop(results, i, j + 1)

searchItems(items, queries) ==
    IF Len(queries) = 0 THEN << >>
    ELSE sortLoop(collect(items, queries, 1), 1, 2)

MaxSearchItems == 3

MaxQueries == 2

\* Contents ab, aba, abb and b; the second is a section's.
SearchItemSet ==
    {[Type |-> TypeTask, Level |-> 0, Content |-> <<97, 98>>,
      Checked |-> "false", Metadata |-> NoMetadata],
     [Type |-> TypeSection, Level |-> 1, Content |-> <<97, 98, 97>>,
      Checked |-> "nil", Metadata |-> NoMetadata],
     [Type |-> TypeTask, Level |-> 0, Content |-> <<97, 98, 98>>,
      Checked |-> "true", Metadata |-> NoMetadata],
     [Type |-> TypeTask, Level |-> 0, Content |-> <<98>>,
      Checked |-> "false", Metadata |-> NoMetadata]}

\* The terms a, ab, aa and a space.
QueryTerms == {<<97>>, <<97, 98>>, <<97, 97>>, <<32>>}

InitSearch ==
    /\ \E v \in SeqsUpTo(SearchItemSet, MaxSearchItems),
          q \in SeqsUpTo(QueryTerms, MaxQueries) :
           /\ tm = Canon(Loaded(v))
           /\ rt = [op |-> "search", pc |-> "call", queries |-> q,
                    results |-> << >>]
    /\ file = << >>
    /\ last = Idle
    /\ ui = Idle
    /\ inv = Idle

SearchCall ==
    /\ rt.pc = "call"
    /\ rt' = [rt EXCEPT !.pc = "return",
                        !.results = searchItems(View(tm), rt.queries)]
    /\ UNCHANGED <<tm, file, last, ui, inv>>

NextSearch == SearchCall

SpecSearch == InitSearch /\ [][NextSearch]_vars

SearchReturned == rt.op = "search" /\ rt.pc = "return"

\* The scores the claim compares for a content: that of the combined
\* pattern and those of the non-blank terms.
ScoresOf(content, queries) ==
    {fuzzyMatch(JoinQueries(queries), content)}
        \cup {fuzzyMatch(queries[i], content) :
                  i \in {n \in 1..Len(queries) : ~IsBlank(queries[n])}}

\* The highest of them.
MaxScore(content, queries) ==
    CHOOSE m \in ScoresOf(content, queries) :
        \A o \in ScoresOf(content, queries) : ~ScoreLess(m, o)

\* The score of the first non-blank term that scores above the combined
\* pattern, and the score of the combined pattern when there is none.
FirstAbove(content, queries) ==
    LET combined == fuzzyMatch(JoinQueries(queries), content)
        above == {n \in 1..Len(queries) :
                     /\ ~IsBlank(queries[n])
                     /\ ScoreLess(combined, fuzzyMatch(queries[n], content))}
    IN  IF above = {} THEN combined
        ELSE fuzzyMatch(queries[CHOOSE n \in above : \A o \in above : n <= o],
                        content)

\* C21 as stated: the score of every returned item is the highest of the
\* score of the combined pattern and the scores of the non-blank terms.
C21_Original ==
    SearchReturned =>
        \A n \in 1..Len(rt.results) :
            Same(rt.results[n].Score,
                 MaxScore(rt.results[n].Item.Content, rt.queries))

\* C21, what the loop computes: the score of every returned item is that of
\* the first non-blank term scoring above the combined pattern, else that of
\* the combined pattern.
C21_FirstAbove ==
    SearchReturned =>
        \A n \in 1..Len(rt.results) :
            Same(rt.results[n].Score,
                 FirstAbove(rt.results[n].Item.Content, rt.queries))

\* The item ab searched with the terms a and ab: the score is 0.8 although
\* the second term scores 1.
C21_Witness ==
    /\ SearchReturned
    /\ Len(tm.Items) = 1
    /\ rt.queries = <<<<97>>, <<97, 98>>>>
    /\ Len(rt.results) = 1
    /\ rt.results[1].Item.Content = <<97, 98>>
    /\ Same(rt.results[1].Score, Score(8, 10))
    /\ Same(fuzzyMatch(rt.queries[2], rt.results[1].Item.Content), Score(1, 1))

\* C22 as stated: the results are in descending score order and results of
\* equal score are in the order of their items in the list.
C22_Original ==
    SearchReturned =>
        \A i, j \in 1..Len(rt.results) :
            i < j => /\ ~ScoreLess(rt.results[i].Score, rt.results[j].Score)
                     /\ Same(rt.results[i].Score, rt.results[j].Score)
                            => rt.results[i].Index < rt.results[j].Index

\* C22, the order alone: the results are in descending score order.
C22_Descending ==
    SearchReturned =>
        \A i, j \in 1..Len(rt.results) :
            i < j => ~ScoreLess(rt.results[i].Score, rt.results[j].Score)

\* The items aba, abb, ab searched with the term ab: aba and abb both score
\* 0.8 and abb is returned before aba.
C22_Witness ==
    /\ SearchReturned
    /\ Len(tm.Items) = 3
    /\ rt.queries = <<<<97, 98>>>>
    /\ Len(rt.results) = 3
    /\ rt.results[1].Index = 2
    /\ rt.results[2].Index = 1 /\ rt.results[3].Index = 0
    /\ Same(rt.results[2].Score, rt.results[3].Score)

\* C23: the returned indexes are exactly those of the items whose final
\* score is above 0.3, each once; a result holds the item at its index and
\* that score; an item's type plays no part; no terms or no items give no
\* results.
C23_Threshold ==
    SearchReturned =>
        LET items == View(tm)
            kept == {i \in 1..Len(items) :
                        /\ rt.queries # << >>
                        /\ ScoreLess(Score(3, 10),
                                     FirstAbove(items[i].Content, rt.queries))}
        IN  /\ {rt.results[n].Index + 1 : n \in 1..Len(rt.results)} = kept
            /\ Len(rt.results) = Cardinality(kept)
            /\ \A n \in 1..Len(rt.results) :
                   /\ rt.results[n].Item = items[rt.results[n].Index + 1]
                   /\ Same(rt.results[n].Score,
                           FirstAbove(rt.results[n].Item.Content, rt.queries))
            /\ (rt.queries = << >> \/ items = << >>) => rt.results = << >>

\* A section aba, a task b and a task ab searched with a and a space: the
\* section and the task ab are returned with 0.8, the task b is not.
C23_Witness ==
    /\ SearchReturned
    /\ Len(tm.Items) = 3
    /\ View(tm)[1].Type = TypeSection /\ View(tm)[1].Content = <<97, 98, 97>>
    /\ View(tm)[2].Content = <<98>>
    /\ View(tm)[3].Content = <<97, 98>>
    /\ rt.queries = <<<<97>>, <<32>>>>
    /\ Len(rt.results) = 2
    /\ rt.results[1].Index = 0 /\ rt.results[2].Index = 2
    /\ Same(rt.results[1].Score, Score(8, 10))

(***************************************************************************)
(* The interactive model under every key: cursor, paging, collapse and     *)
(* expand, move, delete, insert and edit.                                  *)
(***************************************************************************)
MaxKeyItems == 4

\* A level-1 section and a task, as loaded.
KeyFileItems ==
    {UIItem(TypeSection, 1, <<"s">>, "nil", FALSE),
     UIItem(TypeTask, 0, <<"t">>, "false", FALSE)}

NoMove == [key |-> "", index |-> -1, items |-> << >>]

\* The keys pressed in a mode.  In the input field the text typed is the
\* letter s for a section and t for a task, and enter is pressed on a text
\* of one letter; items are inserted while the list has room.
KeysIn(m) ==
    IF m.inputMode
    THEN IF m.inputText = << >>
         THEN {"esc",
               IF m.editingIndex >= 0
               THEN (IF m.items[m.editingIndex + 1].Type = TypeSection
                     THEN "s" ELSE "t")
               ELSE IF m.newSectionLevel > 0 THEN "s" ELSE "t"}
         ELSE {"enter", "esc", "backspace"}
    ELSE IF m.hMode THEN {"1", "esc"}
    ELSE {"j", "k", "enter", "left", "right", "-", "+", "alt+j", "alt+k", "d",
          "ctrl+f", "ctrl+b", "e"}
             \cup (IF Len(m.items) < MaxKeyItems THEN {"n", "h"} ELSE {})

\* initialModel.  ui.move remembers the last key when it was alt+j or alt+k,
\* with the items and the selected index of the moment it was pressed.
InitKeys ==
    /\ \E items \in SeqsUpTo(KeyFileItems, MaxKeyItems) :
           ui = [op |-> "keys",
                 m |-> updateVisibleItems(
                           [items |-> items, cursor |-> 0, visibleItems |-> << >>,
                            scrollOffset |-> 0, inputMode |-> FALSE,
                            inputText |-> << >>, inputCursor |-> 0,
                            editingIndex |-> -1, newSectionLevel |-> 0,
                            hMode |-> FALSE, height |-> 24,
                            bannerMode |-> BannerDisabled]),
                 move |-> NoMove]
    /\ tm = Idle
    /\ last = Idle
    /\ file = << >>
    /\ rt = Idle
    /\ inv = Idle

\* Update on tea.WindowSizeMsg.
KeysWindowSize ==
    /\ \E height \in Heights :
           ui' = [ui EXCEPT !.m.height = height, !.move = NoMove]
    /\ UNCHANGED <<tm, last, file, rt, inv>>

\* Update on tea.KeyMsg.
KeysKey ==
    /\ \E key \in KeysIn(ui.m) :
           ui' = [op |-> "keys",
                  m |-> Update(ui.m, key),
                  move |-> IF key \in {"alt+j", "alt+k"}
                              /\ ~ui.m.inputMode /\ ~ui.m.hMode
                           THEN [key |-> key, index |-> getCurrentItemIndex(ui.m),
                                 items |-> ui.m.items]
                           ELSE NoMove]
    /\ UNCHANGED <<tm, last, file, rt, inv>>

NextKeys == KeysWindowSize \/ KeysKey

SpecKeys == InitKeys /\ [][NextKeys]_vars

\* C25: whenever the visible list is not empty the cursor is an index of it.
C25_CursorInRange ==
    ui.op = "keys" =>
        (Len(ui.m.visibleItems) > 0 =>
             0 <= ui.m.cursor /\ ui.m.cursor < Len(ui.m.visibleItems))

\* Collapse all on the last of several visible items: the cursor is clamped
\* to the last section that stays visible.
C25_Witness ==
    /\ ui.op = "keys"
    /\ Len(ui.m.visibleItems) >= 2
    /\ Len(ui.m.visibleItems) < Len(ui.m.items)
    /\ ui.m.cursor = Len(ui.m.visibleItems) - 1
    /\ \A i \in 1..Len(ui.m.items) :
           ui.m.items[i].Type = TypeSection => ui.m.items[i].Collapsed

Moved == ui.op = "keys" /\ ui.move.key # ""

\* The Go index the moved item goes to: one further for alt+j, one back for
\* alt+k, the same when it is the last or the first item or nothing is
\* selected.
Target ==
    LET i == ui.move.index
        n == Len(ui.move.items)
    IN  IF ui.move.key = "alt+j"
        THEN (IF i >= 0 /\ i < n - 1 THEN i + 1 ELSE i)
        ELSE (IF i > 0 THEN i - 1 ELSE i)

\* C24: after alt+j or alt+k the list has the items it had, with the selected
\* item and its flat neighbour exchanged and every other position as it was;
\* on the last item (alt+j) or the first (alt+k) the list is unchanged.
C24_Swap ==
    Moved =>
        /\ Len(ui.m.items) = Len(ui.move.items)
        /\ \A p \in 1..Len(ui.move.items) :
               ui.m.items[p] =
                   ui.move.items[IF p = Target + 1 THEN ui.move.index + 1
                                 ELSE IF p = ui.move.index + 1 THEN Target + 1
                                 ELSE p]

\* A section moved down across its own first task.
C24_Witness ==
    /\ Moved
    /\ ui.move.key = "alt+j"
    /\ ui.move.index = 0
    /\ Len(ui.move.items) >= 2
    /\ ui.move.items[1].Type = TypeSection
    /\ ui.move.items[2].Type = TypeTask
    /\ ui.m.items[1].Type = TypeTask
    /\ ui.m.items[2].Type = TypeSection

\* The last item moved down: nothing changes.
C24_WitnessEdge ==
    /\ Moved
    /\ ui.move.key = "alt+j"
    /\ Len(ui.move.items) >= 2
    /\ ui.move.index = Len(ui.move.items) - 1
    /\ ui.m.items = ui.move.items

\* C28: after alt+j or alt+k, when the moved item is visible the cursor
\* selects it.
C28_Original ==
    Moved /\ ui.move.index >= 0 =>
        ((\E i \in 1..Len(ui.m.visibleItems) : ui.m.visibleItems[i] = Target)
             => getCurrentItemIndex(ui.m) = Target)

\* A section moved up across the hidden task of a collapsed section: it is
\* visible at its new place and the cursor is on the collapsed section.
C28_Witness ==
    /\ Moved
    /\ ui.move.key = "alt+k"
    /\ ui.move.index = 2
    /\ ui.move.items[1].Collapsed
    /\ ui.move.items[2].Type = TypeTask
    /\ ui.m.visibleItems[2] = 1
    /\ ui.m.cursor = 0
    /\ getCurrentItemIndex(ui.m) = 0

\* The Go index x lies in the range that deleting the section at c removes,
\* and is not c.
InDeleteRange(items, c, x) ==
    /\ items[c + 1].Type = TypeSection
    /\ c < x
    /\ x < c + DeleteCount(items, c)

\* C27: an item is missing from the visible list exactly when it lies in the
\* delete range of a collapsed section other than itself.
C27_HiddenIsDeleteRange ==
    ui.op = "ui" =>
        \A x \in 0..(Len(ui.m.items) - 1) :
            x \notin Range(ui.m.visibleItems) <=>
                \E c \in 0..(Len(ui.m.items) - 1) :
                    /\ InDeleteRange(ui.m.items, c, x)
                    /\ ui.m.items[c + 1].Collapsed

\* A collapsed level-1 section hides an expanded level-2 section and its
\* task; the level-1 section after them is visible.
C27_Witness ==
    /\ ui.op = "ui"
    /\ Len(ui.m.items) = 4
    /\ ui.m.items[1].Type = TypeSection /\ ui.m.items[1].Level = 1
    /\ ui.m.items[1].Collapsed
    /\ ui.m.items[2].Type = TypeSection /\ ui.m.items[2].Level = 2
    /\ ~ui.m.items[2].Collapsed
    /\ ui.m.items[3].Type = TypeTask
    /\ ui.m.items[4].Type = TypeSection /\ ui.m.items[4].Level = 1
    /\ ui.m.visibleItems = <<0, 3>>

(***************************************************************************)
(* AddSection followed by RemoveItem on the index of the new section.      *)
(***************************************************************************)
MaxUndoItems == 3

UndoLevels == {0, 1, 2}

\* A loaded list, before any call.
InitUndo ==
    /\ \E v \in SeqsUpTo(FileSections \cup FileTasks, MaxUndoItems) :
           rt = [op |-> "undo", pc |-> "loaded", tm |-> Canon(Loaded(v)),
                 before |-> v, level |-> 0, index |-> -1, err |-> NoErr]
    /\ tm = Idle
    /\ last = Idle
    /\ file = << >>
    /\ ui = Idle
    /\ inv = Idle

\* AddSection(title, level, afterIndex); the new section is at the end for
\* afterIndex -1 and at afterIndex + 1 otherwise.
UndoAddSection ==
    /\ rt.op = "undo" /\ rt.pc = "loaded"
    /\ \E content \in ArgTitles, level \in UndoLevels,
          afterIndex \in -2..Len(rt.tm.Items) :
           LET r == AddSection(rt.tm, content, level, afterIndex)
           IN  rt' = [rt EXCEPT !.pc = IF r.err = NoErr THEN "added" ELSE "failed",
                                !.tm = r.tm,
                                !.level = level,
                                !.index = IF afterIndex = -1 THEN Len(rt.tm.Items)
                                          ELSE afterIndex + 1,
                                !.err = r.err]
    /\ UNCHANGED <<tm, last, file, ui, inv>>

\* RemoveItem(index of the new section).
UndoRemoveItem ==
    /\ rt.op = "undo" /\ rt.pc = "added"
    /\ LET r == RemoveItem(rt.tm, rt.index)
       IN  rt' = [rt EXCEPT !.pc = "removed", !.tm = r.tm, !.err = r.err]
    /\ UNCHANGED <<tm, last, file, ui, inv>>

NextUndo == UndoAddSection \/ UndoRemoveItem

SpecUndo == InitUndo /\ [][NextUndo]_vars

Undone == rt.op = "undo" /\ rt.pc = "removed"

\* The new section was put at the end of the list or directly before a
\* section whose level is at most its own.
AtBoundary ==
    \/ rt.index = Len(rt.before)
    \/ /\ rt.index < Len(rt.before)
       /\ rt.before[rt.index + 1].Type = TypeSection
       /\ rt.before[rt.index + 1].Level <= rt.level

\* C26 as stated: AddSection followed by RemoveItem on the new section's index
\* gives back the list that existed before the insertion.
C26_Original == Undone => View(rt.tm) = rt.before

\* C26: the removal succeeds and gives back the list before the insertion
\* exactly when the section was inserted at the end or directly before a
\* section of a level at most its own; otherwise it also removes the items
\* that followed the insertion point, up to the next such section, and keeps
\* the items before the insertion point.
C26_UndoAtBoundary ==
    Undone =>
        /\ rt.err = NoErr
        /\ (View(rt.tm) = rt.before <=> AtBoundary)
        /\ Len(rt.tm.Items) <= Len(rt.before)
        /\ SubSeq(View(rt.tm), 1, rt.index) = SubSeq(rt.before, 1, rt.index)
        /\ ~AtBoundary =>
               /\ Len(rt.tm.Items) < Len(rt.before)
               /\ \A i \in (rt.index + 1)..Len(rt.tm.Items) :
                      View(rt.tm)[i] =
                          rt.before[i + Len(rt.before) - Len(rt.tm.Items)]
               /\ Len(rt.tm.Items) > rt.index =>
                      /\ View(rt.tm)[rt.index + 1].Type = TypeSection
                      /\ View(rt.tm)[rt.index + 1].Level <= rt.level

\* A section inserted between two tasks and removed: the second task is gone.
C26_Witness ==
    /\ Undone
    /\ Len(rt.before) = 2
    /\ rt.before[1].Type = TypeTask /\ rt.before[2].Type = TypeTask
    /\ rt.index = 1
    /\ View(rt.tm) = <<rt.before[1]>>

\* A section inserted before a section of its level and removed: the list is
\* the one before the insertion.
C26_WitnessRestored ==
    /\ Undone
    /\ Len(rt.before) = 3
    /\ rt.index = 1
    /\ rt.level = 2
    /\ rt.before[2].Type = TypeSection /\ rt.before[2].Level = 1
    /\ rt.before[3].Type = TypeTask
    /\ View(rt.tm) = rt.before

\* An item as the operations and the serializer expect it.
WellFormed(t, item) ==
    \/ /\ item.Type = TypeTask
       /\ item.Checked # NilPtr
       /\ item.Checked \in DOMAIN t.heap
    \/ /\ item.Type = TypeSection
       /\ item.Checked = NilPtr
       /\ item.Level \in 1..6

\* C29: after Load and any calls of AddTask, AddSection, ToggleTask and
\* RemoveItem, every task has a completion flag and every section has none
\* and a level from 1 to 6.
C29_WellFormed ==
    last.op # "none" =>
        \A i \in 1..Len(tm.Items) : WellFormed(tm, tm.Items[i])

\* A successful ToggleTask on a list that holds a section of level 6, which
\* only AddSection makes, and two tasks.
C29_Witness ==
    /\ last.op = "ToggleTask"
    /\ last.err = NoErr
    /\ \E i \in 1..Len(tm.Items) :
           tm.Items[i].Type = TypeSection /\ tm.Items[i].Level = 6
    /\ Cardinality({i \in 1..Len(tm.Items) : tm.Items[i].Type = TypeTask}) >= 2

(***************************************************************************)
(* parseTask step by step: the prefix, then one step per iteration of the  *)
(* loop of parseContent, then the return.                                  *)
(***************************************************************************)
MaxLoopLen == 4

LoopChars == {" ", "a", "1", ":", "\""}

\* Lines with a checkbox prefix and any content, and lines without one.
LoopLines ==
    {<<"-", " ", "[", "x", "]", " ">> \o c : c \in SeqsUpTo(LoopChars, MaxLoopLen)}
        \cup {<< >>, <<"a">>, <<"-", " ", "[">>, <<"-", " ", "[", "a", "]">>,
              <<" ", "-", "[", " ", "]", " ">>}

NoIteration == [from |-> 0, at |-> 0, ok |-> FALSE, to |-> 0, n |-> 0]

\* parseTask up to the call of parseTaskPrefix: the parser on the trimmed line.
InitLoop ==
    /\ \E taskLine \in LoopLines :
           rt = [op |-> "loop", pc |-> "prefix", input |-> TrimSpace(taskLine),
                 pos |-> 0, tokens |-> << >>, metadata |-> NoMetadata,
                 iter |-> NoIteration]
    /\ tm = Idle
    /\ last = Idle
    /\ file = << >>
    /\ ui = Idle
    /\ inv = Idle

\* parseTaskPrefix; parseTask returns when it fails.
LoopPrefix ==
    /\ rt.op = "loop" /\ rt.pc = "prefix"
    /\ LET prefix == parseTaskPrefix(rt.input)
       IN  rt' = [rt EXCEPT !.pc = IF prefix.ok THEN "content" ELSE "invalid",
                            !.pos = prefix.pos]
    /\ UNCHANGED <<tm, last, file, ui, inv>>

\* One iteration of the loop of parseContent; rt.iter keeps where it started,
\* where the whitespace ended, whether a pair was read and where it ended.
LoopIteration ==
    /\ rt.op = "loop" /\ rt.pc = "content"
    /\ rt.pos < Len(rt.input)
    /\ LET at == skipWhitespace(rt.input, rt.pos)
           m == parseMetadata(rt.input, at)
           wordEnd == parseWord(rt.input, m.pos)
       IN  rt' = IF m.ok
                 THEN [rt EXCEPT !.pos = m.pos,
                                 !.metadata = SetKey(@, m.key, m.value),
                                 !.iter = [from |-> rt.pos, at |-> at, ok |-> TRUE,
                                           to |-> m.pos, n |-> rt.iter.n + 1]]
                 ELSE [rt EXCEPT !.pos = wordEnd,
                                 !.tokens = Append(@, Slice(rt.input, m.pos, wordEnd)),
                                 !.iter = [from |-> rt.pos, at |-> m.pos, ok |-> FALSE,
                                           to |-> wordEnd, n |-> rt.iter.n + 1]]
    /\ UNCHANGED <<tm, last, file, ui, inv>>

\* The loop ends and parseTask returns.
LoopReturn ==
    /\ rt.op = "loop" /\ rt.pc = "content"
    /\ rt.pos >= Len(rt.input)
    /\ rt' = [rt EXCEPT !.pc = "done"]
    /\ UNCHANGED <<tm, last, file, ui, inv>>

NextLoop == LoopPrefix \/ LoopIteration \/ LoopReturn

SpecLoop == InitLoop /\ [][NextLoop]_vars

\* The parser runs: a step that can be taken is taken.
SpecLoopFair == SpecLoop /\ WF_vars(NextLoop)

Returned == rt.op = "loop" /\ rt.pc \in {"done", "invalid"}

\* The last iteration consumed a character; after a failed metadata attempt
\* the word starts where the whitespace ended and holds a character that is
\* not a space or a tab.
Consumes ==
    rt.op = "loop" /\ rt.iter.n > 0 =>
        /\ rt.iter.to > rt.iter.from
        /\ rt.iter.from <= rt.iter.at
        /\ rt.pos = rt.iter.to
        /\ rt.pos <= Len(rt.input)
        /\ ~rt.iter.ok =>
               /\ rt.iter.to > rt.iter.at
               /\ At(rt.input, rt.iter.at) \notin {" ", "\t"}

\* After a valid prefix the return leaves nothing of the input unread.
WholeInput == rt.op = "loop" /\ rt.pc = "done" => rt.pos = Len(rt.input)

\* C30: parseTask returns on every line; every iteration of the content loop
\* consumes at least one character, a failed metadata attempt being followed
\* by a word of at least one non-whitespace character; and at the return
\* after a valid prefix the whole input is consumed.
C30_Terminates == [](Consumes /\ WholeInput) /\ <>Returned

\* The return after an iteration whose metadata attempt read a key, a colon
\* and an unterminated quoted value, and whose word then took all four
\* characters.
C30_Witness ==
    /\ rt.op = "loop" /\ rt.pc = "done"
    /\ rt.iter.n = 1
    /\ ~rt.iter.ok
    /\ Slice(rt.input, rt.iter.at, rt.iter.to) = <<"a", ":", "\"", "a">>
    /\ rt.tokens = <<<<"a", ":", "\"", "a">>>>
    /\ rt.pos = Len(rt.input)

====
